---- MODULE Spec2Model ----
(***************************************************************************)
(* Streaming orchestration pipeline of the translator application.         *)
(*                                                                         *)
(* Spec               : OptimizedTrilingualTranslator and its Flask        *)
(*                      control surface (src/app2.py).                     *)
(* SpecApp/FairSpecApp: TrilingualTranslator and its Flask control surface *)
(*                      (src/app.py); FairSpecApp adds thread fairness.    *)
(* SpecBacklog        : the pipeline of src/app2.py late in a run, with    *)
(*                      channels near capacity; FairSpecBacklog adds       *)
(*                      thread fairness.                                   *)
(* SpecMain           : command-line TrilingualTranslator (src/main.py).   *)
(* SpecListening      : the same after start(), late in a run;             *)
(*                      FairSpecListening adds thread fairness.            *)
(* SpecSpeech         : src/app2.py with _synthesize_speech in two steps.  *)
(* SpecContext        : ConversationContext history (src/mcp).             *)
(* SpecPersist        : ConversationContext saved and loaded (src/mcp).    *)
(* SpecTranslate      : ContextAwareTranslator.translate (src/mcp/mcp2.py);*)
(*                      FairSpecTranslate has the calls keep coming.       *)
(* SpecReload         : SpecPersist with loads into the context in use and *)
(*                      clear_history.                                     *)
(* SpecStalled        : src/app2.py with every pool thread held by an      *)
(*                      overrun call; FairSpecStalled adds fairness.       *)
(* SpecCounters       : the stats updates of src/app2.py, read and write   *)
(*                      apart.                                             *)
(* SpecDelay          : adaptive timing of src/app2.py.                    *)
(* SpecSentence       : is_complete_sentence (src/translation,             *)
(*                      src/language_detection).                           *)
(*                                                                         *)
(* Time is abstracted: a timed wait (queue get/put timeout, thread join    *)
(* timeout, future.result timeout) is a step that may fire at any moment.  *)
(* Items carry ghost tags (capture ordinal, source language, translator    *)
(* language) that the program's strings do not carry.                      *)
(***************************************************************************)
EXTENDS Naturals, Integers, Sequences, FiniteSets, TLC

(* ---------------------------------------------------------------- bounds *)
MaxEvents == 4         \* control requests plus captured audio units per run

(* ------------------------------------------------------ program constants *)
Languages == {"en", "es", "fr"}
DefaultTarget == "en"
AudioQueueMax == 10
TranscriptionQueueMax == 20
TranslationQueueMax == 10
TtsQueueMax == 5
PoolWorkers == 4

(* inputs *)
LangInputs == {"en", "fr", "de"}
DetectOutcomes == Languages \cup {"none"}
DefaultMaxHistory == 100
MinDelay == 10         \* self.min_processing_delay = 0.1, in hundredths of a second
MaxDelay == 200        \* self.max_processing_delay = 2.0
InitialDelay == 100    \* self.adaptive_delay = 1.0

VARIABLES
    running,              \* self.running
    shutdown_event,       \* self.shutdown_event.is_set()
    paused_event,         \* self.paused_event.is_set()  (set = not paused)
    target_lang,          \* self.target_lang
    source_lang,          \* self.source_lang ("none" for None)
    sentence_buffer,      \* self.sentence_buffer of TrilingualTranslator
    translators,          \* keys of self.translators
    synthesizers,         \* keys of self.synthesizers
    executor_down,        \* self.executor has been shut down
    rec_running,          \* truthiness of AudioRecorder.running
    translator_running,   \* module-level Event translator_running
    audio_queue, transcription_queue, translation_queue, tts_queue,
    stats,                \* self.stats counters
    workers,              \* one record of worker threads per start() that launched
    starters,             \* threads running _start_translator_thread, by position
    start_ret,            \* value returned by the translator.start() of the latest
                          \* start thread ("none" while it has not returned)
    stop_pc,              \* position of the request thread inside stop_translation
    stale,                \* pool calls abandoned by a result() timeout, still running
    tts_tasks,            \* _synthesize_speech tasks submitted and not finished
    spoken,               \* utterances handed to a synthesizer, in order
    units,                \* audio units captured so far
    calls,                \* control requests issued so far
    resp,                 \* the latest control request and its answer
    trail,                \* the control requests issued so far, oldest first
    after_stop,           \* a stop has returned and no start was requested since
    clean_stop,           \* the latest stop was requested with no start thread alive,
                          \* and no start was requested since
    translator_lang,      \* main.py: target_lang of the base Translator object
    synth_lang,           \* main.py: language of the KokoroSynthesizer object
    recent_translations,  \* main.py: self.recent_translations
    exchanges,            \* main.py: exchanges added to the conversation context
    cmd_pc,               \* main.py: position of the command loop (main thread)
    ctx_impl,             \* which ConversationContext class the object is
    max_history,          \* ConversationContext.max_history
    history,              \* ConversationContext.history, oldest first
    offered,              \* exchanges handed to the context so far (added or loaded)
    adaptive_delay,       \* app2.py: self.adaptive_delay, in hundredths of a second
    delay_pc,             \* position of the caller inside _update_adaptive_delay
    delay_seen,           \* the adaptive_delay that the latest get_status read, if any
    buffer,               \* a transcript buffer handed to is_complete_sentence
    typed,                \* pieces the buffer was assembled from
    verdict,              \* the latest is_complete_sentence results, if any
    tts_lock,             \* app2.py: the task that holds self.tts_lock, if any
    speaking,             \* app2.py: tasks inside synthesizer.speak
    topics,               \* ConversationContext.topics
    language_pairs,       \* ConversationContext.language_pairs
    saved_file,           \* the history file on disk, if it was written
    new_context,          \* a fresh ConversationContext that loaded the file, if any
    partial_sentence,     \* ContextAwareTranslator.partial_sentence
    cat_recent_translations,  \* keys of ContextAwareTranslator.recent_translations
    last_call,            \* the latest ContextAwareTranslator.translate call, if any
    in_update,            \* app2.py: per stage thread, the counter value it read
                          \* inside a `self.stats[...] += 1`, if it is inside one
    counted               \* app2.py: `+= 1` statements begun, per counter

pipeline == <<running, shutdown_event, paused_event, target_lang, source_lang,
          sentence_buffer, translators,
          synthesizers, executor_down, rec_running, translator_running,
          audio_queue, transcription_queue, translation_queue, tts_queue,
          stats, workers, starters, start_ret, stop_pc, stale, tts_tasks,
          spoken, units, calls, resp, trail, after_stop, clean_stop,
          translator_lang, synth_lang, recent_translations, exchanges, cmd_pc>>

\* state of the library objects that are modelled on their own
ctxState == <<ctx_impl, max_history, history, offered>>
delayState == <<adaptive_delay, delay_pc, delay_seen>>
textState == <<buffer, typed, verdict>>
speechState == <<tts_lock, speaking>>
oldLib == <<ctxState, delayState, textState>>
persistState == <<topics, language_pairs, saved_file, new_context>>
catState == <<partial_sentence, cat_recent_translations, last_call>>
raceState == <<in_update, counted>>
otherLib == <<speechState, persistState, catState, raceState>>
notSpeech == <<oldLib, persistState, catState, raceState>>
notPersist == <<delayState, textState, speechState, catState, raceState>>
libOnly == <<oldLib, otherLib>>
notCtx == <<delayState, textState, otherLib>>
notDelay == <<ctxState, textState, otherLib>>
notText == <<ctxState, delayState, otherLib>>

vars == <<pipeline, libOnly>>

ctlState == <<running, shutdown_event, paused_event, target_lang, translators,
              synthesizers, executor_down>>
queues == <<audio_queue, transcription_queue, translation_queue, tts_queue>>
poolState == <<stale, tts_tasks, spoken>>
ctlHist == <<calls, resp, trail, after_stop, clean_stop>>
\* variables that only the TrilingualTranslator of src/app.py uses
appOnly == <<sentence_buffer>>
\* variables that only the OptimizedTrilingualTranslator of src/app2.py uses
app2Only == <<shutdown_event, translators, synthesizers, executor_down,
              translator_running, tts_queue, stats, starters, start_ret, stale,
              tts_tasks, after_stop, clean_stop>>

\* variables that only the command-line TrilingualTranslator of src/main.py uses
mainOnly == <<translator_lang, synth_lang, recent_translations, exchanges,
              cmd_pc>>
\* state outside the two Flask applications
outside == <<mainOnly, libOnly>>

(* ---------------------------------------------------------------- helpers *)
StarterPcs == {"check", "set", "clear", "launch", "fin"}
NoStarters == [p \in StarterPcs |-> 0]

NewWorkers == [audio |-> "start",
               ts |-> "poll", ts_item |-> [id |-> 0, lang |-> "none"],
               taken |-> 0, emitted |-> 0,
               tr |-> "poll", tr_item |-> [id |-> 0, src |-> "none", tgt |-> "none"],
               tts |-> "poll"]

Gens == 1..Len(workers)
GenIds == 1..MaxEvents

\* the loop guard of every stage worker: self.running and not shutdown_event
Live == running /\ ~shutdown_event

Bump(field) == [stats EXCEPT ![field] = @ + 1]

\* the translator property: self.translators[self.target_lang]
HasTranslator == target_lang \in translators
\* the synthesizer property: self.synthesizers[self.target_lang]
HasSynthesizer == target_lang \in synthesizers

StaleTotal == stale["transcribe"] + stale["translate"]

\* executor.shutdown(wait=True) returns once no submitted call is outstanding
PoolIdle == /\ StaleTotal = 0
            /\ tts_tasks = {}
            /\ \A g \in Gens : workers[g].ts # "result" /\ workers[g].tr # "result"

Answer(op, arg, token) == [op |-> op, arg |-> arg, token |-> token]

Record(op, arg, token) ==
    /\ calls' = calls + 1
    /\ trail' = Append(trail, op)
    /\ resp' = Answer(op, arg, token)

LockFree == stop_pc = "idle"
Budget == calls + units < MaxEvents
CanCall == LockFree /\ Budget

(* ------------------------------------------------------------------ Init *)
InitPipeline ==
    /\ running = FALSE
    /\ shutdown_event = FALSE
    /\ paused_event = TRUE
    /\ target_lang = DefaultTarget
    /\ source_lang = "none"
    /\ sentence_buffer = <<>>
    /\ translators = Languages
    /\ synthesizers = Languages
    /\ executor_down = FALSE
    /\ rec_running = TRUE
    /\ translator_running = FALSE
    /\ audio_queue = <<>>
    /\ transcription_queue = <<>>
    /\ translation_queue = <<>>
    /\ tts_queue = <<>>
    /\ stats = [transcriptions |-> 0, translations |-> 0, errors |-> 0]
    /\ workers = <<>>
    /\ starters = NoStarters
    /\ start_ret = "none"
    /\ stop_pc = "idle"
    /\ stale = [transcribe |-> 0, translate |-> 0]
    /\ tts_tasks = {}
    /\ spoken = <<>>
    /\ units = 0
    /\ calls = 0
    /\ resp = Answer("none", "", "none")
    /\ trail = <<>>
    /\ after_stop = FALSE
    /\ clean_stop = FALSE
    /\ translator_lang = DefaultTarget
    /\ synth_lang = DefaultTarget
    /\ recent_translations = {}
    /\ exchanges = <<>>
    /\ cmd_pc = "idle"

\* the library objects before anything is done with them
CtxIdle ==
    /\ ctx_impl = "mcp"
    /\ max_history = DefaultMaxHistory
    /\ history = <<>>
    /\ offered = 0
DelayIdle ==
    /\ adaptive_delay = InitialDelay
    /\ delay_pc = "idle"
    /\ delay_seen = <<>>
TextIdle ==
    /\ buffer = <<>>
    /\ typed = 0
    /\ verdict = <<>>
SpeechIdle ==
    /\ tts_lock = <<>>
    /\ speaking = {}
PersistIdle ==
    /\ topics = {}
    /\ language_pairs = <<>>
    /\ saved_file = <<>>
    /\ new_context = <<>>
CatIdle ==
    /\ partial_sentence = <<>>
    /\ cat_recent_translations = {}
    /\ last_call = <<>>
Stages == {"transcription", "translation", "tts"}
Counters == {"transcriptions", "translations", "errors"}
RaceIdle ==
    /\ in_update = [t \in Stages |-> <<>>]
    /\ counted = [c \in Counters |-> 0]
OtherIdle == SpeechIdle /\ PersistIdle /\ CatIdle /\ RaceIdle
LibIdle == CtxIdle /\ DelayIdle /\ TextIdle /\ OtherIdle

Init == InitPipeline /\ LibIdle

(* ------------------------------------------------ control surface: start *)
\* POST /start
StartCall ==
    /\ CanCall
    /\ IF translator_running
       THEN /\ Record("start", "", "already_running")
            /\ UNCHANGED <<translator_running, starters, start_ret>>
       ELSE /\ Record("start", "", "started")
            /\ translator_running' = TRUE
            /\ starters' = [starters EXCEPT !["check"] = @ + 1]
            /\ start_ret' = "none"
    /\ after_stop' = FALSE
    /\ clean_stop' = FALSE
    /\ UNCHANGED <<ctlState, rec_running, queues, stats, workers,
                   stop_pc, poolState, units,
                   source_lang, appOnly, outside>>

\* translator.start(): if self.running: return False
StartCheck ==
    /\ starters["check"] > 0
    /\ IF running
       THEN /\ starters' = [starters EXCEPT !["check"] = @ - 1, !["fin"] = @ + 1]
            /\ start_ret' = "false"
       ELSE /\ starters' = [starters EXCEPT !["check"] = @ - 1, !["set"] = @ + 1]
            /\ UNCHANGED start_ret
    /\ UNCHANGED <<ctlState, rec_running, translator_running, queues, stats,
                   workers, stop_pc, poolState, units, ctlHist,
                   source_lang, appOnly, outside>>

\* self.running = True
StartSet ==
    /\ starters["set"] > 0
    /\ running' = TRUE
    /\ starters' = [starters EXCEPT !["set"] = @ - 1, !["clear"] = @ + 1]
    /\ UNCHANGED <<shutdown_event, paused_event, target_lang, translators,
                   synthesizers, executor_down, rec_running, translator_running,
                   queues, stats, workers, start_ret, stop_pc, poolState, units,
                   ctlHist,
                   source_lang, appOnly, outside>>

\* self.shutdown_event.clear()
StartClear ==
    /\ starters["clear"] > 0
    /\ shutdown_event' = FALSE
    /\ starters' = [starters EXCEPT !["clear"] = @ - 1, !["launch"] = @ + 1]
    /\ UNCHANGED <<running, paused_event, target_lang, translators,
                   synthesizers, executor_down, rec_running, translator_running,
                   queues, stats, workers, start_ret, stop_pc, poolState, units,
                   ctlHist,
                   source_lang, appOnly, outside>>

\* self.worker_threads = [...]; thread.start() for each; return True
StartLaunch ==
    /\ starters["launch"] > 0
    /\ workers' = Append(workers, NewWorkers)
    /\ start_ret' = "true"
    /\ starters' = [starters EXCEPT !["launch"] = @ - 1, !["fin"] = @ + 1]
    /\ UNCHANGED <<ctlState, rec_running, translator_running, queues, stats,
                   stop_pc, poolState, units, ctlHist,
                   source_lang, appOnly, outside>>

\* finally: translator_running.clear()
StartFinish ==
    /\ starters["fin"] > 0
    /\ translator_running' = FALSE
    /\ starters' = [starters EXCEPT !["fin"] = @ - 1]
    /\ UNCHANGED <<ctlState, rec_running, queues, stats, workers, start_ret,
                   stop_pc, poolState, units, ctlHist,
                   source_lang, appOnly, outside>>

(* ------------------------------------------------- control surface: stop *)
\* POST /stop takes translator_lock; stop(): running = False,
\* shutdown_event.set(), audio_recorder.stop()
StopCall ==
    /\ CanCall
    /\ running' = FALSE
    /\ shutdown_event' = TRUE
    /\ rec_running' = FALSE
    /\ stop_pc' = "join"
    /\ Record("stop", "", "pending")
    /\ clean_stop' = (starters = NoStarters)
    /\ UNCHANGED <<paused_event, target_lang, translators, synthesizers,
                   executor_down, translator_running, queues, stats, workers,
                   starters, start_ret, poolState, units, after_stop,
                   source_lang, appOnly, outside>>

\* thread.join(timeout=2.0) for every thread of worker_threads: a bounded wait
StopJoin ==
    /\ stop_pc = "join"
    /\ stop_pc' = "cleanup"
    /\ UNCHANGED <<ctlState, rec_running, translator_running, queues, stats,
                   workers, starters, start_ret, poolState, units, ctlHist,
                   source_lang, appOnly, outside>>

\* variant: _cleanup_resources that fails on handles already released
StopCleanup_FailsWhenReleased ==
    /\ stop_pc = "cleanup"
    /\ synthesizers' = {}
    /\ translators' = {}
    /\ executor_down' = TRUE
    /\ stats' = IF executor_down THEN Bump("errors") ELSE stats
    /\ stop_pc' = "await"
    /\ UNCHANGED <<running, shutdown_event, paused_event, target_lang,
                   rec_running, translator_running, queues, workers,
                   starters, start_ret, poolState, units, ctlHist,
                   source_lang, appOnly, outside>>

\* _cleanup_resources up to executor.shutdown
StopCleanup ==
    /\ stop_pc = "cleanup"
    /\ synthesizers' = {}
    /\ translators' = {}
    /\ executor_down' = TRUE
    /\ stop_pc' = "await"
    /\ UNCHANGED <<running, shutdown_event, paused_event, target_lang,
                   rec_running, translator_running, queues, stats, workers,
                   starters, start_ret, poolState, units, ctlHist,
                   source_lang, appOnly, outside>>

\* executor.shutdown(wait=True) returns
StopAwait ==
    /\ stop_pc = "await"
    /\ PoolIdle
    /\ stop_pc' = "clear"
    /\ UNCHANGED <<ctlState, rec_running, translator_running, queues, stats,
                   workers, starters, start_ret, poolState, units, ctlHist,
                   source_lang, appOnly, outside>>

\* _clear_queues
StopClear ==
    /\ stop_pc = "clear"
    /\ audio_queue' = <<>>
    /\ transcription_queue' = <<>>
    /\ translation_queue' = <<>>
    /\ tts_queue' = <<>>
    /\ stop_pc' = "ret"
    /\ UNCHANGED <<ctlState, rec_running, translator_running, stats, workers,
                   starters, start_ret, poolState, units, ctlHist,
                   source_lang, appOnly, outside>>

\* back in stop_translation: translator_running.clear(); status stopped
StopReturn ==
    /\ stop_pc = "ret"
    /\ translator_running' = FALSE
    /\ resp' = Answer("stop", "", "stopped")
    /\ after_stop' = TRUE
    /\ stop_pc' = "idle"
    /\ UNCHANGED <<ctlState, rec_running, queues, stats, workers, starters,
                   start_ret, poolState, units, calls, trail, clean_stop,
                   source_lang, appOnly, outside>>

(* --------------------------------- control surface: pause, resume, language *)
\* variant: pause() without the running test
PauseCall_NoRunningTest ==
    /\ CanCall
    /\ Record("pause", "", "paused")
    /\ paused_event' = FALSE
    /\ workers' = [g \in Gens |-> [workers[g] EXCEPT !.taken = 0, !.emitted = 0]]
    /\ UNCHANGED <<running, shutdown_event, target_lang, translators,
                   synthesizers, executor_down, rec_running, translator_running,
                   queues, stats, starters, start_ret, stop_pc, poolState,
                   units, after_stop, clean_stop,
                   source_lang, appOnly, outside>>

\* variant: resume() that leaves the flag as it is when the pipeline was paused
\* more than once
ResumeCall_Counting ==
    /\ CanCall
    /\ IF ~running
       THEN /\ Record("resume", "", "not_running")
            /\ UNCHANGED <<paused_event, workers>>
       ELSE /\ Record("resume", "", "resumed")
            /\ paused_event' = (Len(trail) < 2 \/ trail[Len(trail) - 1] # "pause")
            /\ workers' = [g \in Gens |->
                             [workers[g] EXCEPT !.taken = 0, !.emitted = 0]]
    /\ UNCHANGED <<running, shutdown_event, target_lang, translators,
                   synthesizers, executor_down, rec_running, translator_running,
                   queues, stats, starters, start_ret, stop_pc, poolState,
                   units, after_stop, clean_stop,
                   source_lang, appOnly, outside>>

\* POST /pause
PauseCall ==
    /\ CanCall
    /\ IF ~running
       THEN /\ Record("pause", "", "not_running")
            /\ UNCHANGED <<paused_event, workers>>
       ELSE /\ Record("pause", "", "paused")
            /\ paused_event' = FALSE
            /\ workers' = [g \in Gens |->
                             [workers[g] EXCEPT !.taken = 0, !.emitted = 0]]
    /\ UNCHANGED <<running, shutdown_event, target_lang, translators,
                   synthesizers, executor_down, rec_running, translator_running,
                   queues, stats, starters, start_ret, stop_pc, poolState,
                   units, after_stop, clean_stop,
                   source_lang, appOnly, outside>>

\* POST /resume
ResumeCall ==
    /\ CanCall
    /\ IF ~running
       THEN /\ Record("resume", "", "not_running")
            /\ UNCHANGED <<paused_event, workers>>
       ELSE /\ Record("resume", "", "resumed")
            /\ paused_event' = TRUE
            /\ workers' = [g \in Gens |->
                             [workers[g] EXCEPT !.taken = 0, !.emitted = 0]]
    /\ UNCHANGED <<running, shutdown_event, target_lang, translators,
                   synthesizers, executor_down, rec_running, translator_running,
                   queues, stats, starters, start_ret, stop_pc, poolState,
                   units, after_stop, clean_stop,
                   source_lang, appOnly, outside>>

\* variant: change_language without the new_lang == self.target_lang test
ChangeLanguageCall_NoSameTest(new_lang) ==
    /\ CanCall
    /\ IF new_lang = "" \/ new_lang \notin Languages
       THEN /\ Record("change_language", new_lang, "invalid_language")
            /\ UNCHANGED target_lang
       ELSE /\ Record("change_language", new_lang, "language_changed")
            /\ target_lang' = new_lang
    /\ UNCHANGED <<running, shutdown_event, paused_event, translators,
                   synthesizers, executor_down, rec_running, translator_running,
                   queues, stats, workers, starters, start_ret, stop_pc,
                   poolState, units, after_stop, clean_stop,
                   source_lang, appOnly, outside>>

\* POST /change_language with JSON field language = new_lang
ChangeLanguageCall(new_lang) ==
    /\ CanCall
    /\ IF new_lang = "" \/ new_lang \notin Languages
       THEN /\ Record("change_language", new_lang, "invalid_language")
            /\ UNCHANGED target_lang
       ELSE IF new_lang = target_lang
       THEN /\ Record("change_language", new_lang, "language_not_changed")
            /\ UNCHANGED target_lang
       ELSE /\ Record("change_language", new_lang, "language_changed")
            /\ target_lang' = new_lang
    /\ UNCHANGED <<running, shutdown_event, paused_event, translators,
                   synthesizers, executor_down, rec_running, translator_running,
                   queues, stats, workers, starters, start_ret, stop_pc,
                   poolState, units, after_stop, clean_stop,
                   source_lang, appOnly, outside>>

ChangeLanguage == \E l \in LangInputs : ChangeLanguageCall(l)

(* ------------------------------------------------------------------ status *)
\* what get_status() returns: run state, pause flag, languages, counters and
\* queue depths
Snapshot ==
    [running |-> running,
     paused |-> ~paused_event,
     source_lang |-> source_lang,
     target_lang |-> target_lang,
     stats |-> stats,
     queue_sizes |-> [audio |-> Len(audio_queue),
                      transcription |-> Len(transcription_queue),
                      translation |-> Len(translation_queue),
                      tts |-> Len(tts_queue)]]

\* variant: a status request that drains the translation queue it reports
GetStatus_Draining ==
    /\ CanCall
    /\ Record("status", Snapshot, "ok")
    /\ translation_queue' = <<>>
    /\ UNCHANGED <<ctlState, rec_running, translator_running, audio_queue,
                   transcription_queue, tts_queue, stats, workers, starters,
                   start_ret, stop_pc, poolState, units, after_stop, clean_stop,
                   source_lang, appOnly, outside>>

\* GET /status: get_status() under translator_lock; the two language lookups
\* raise KeyError for a code that is not in self.languages
GetStatus ==
    /\ CanCall
    /\ IF target_lang \in Languages /\ source_lang \in Languages \cup {"none"}
       THEN Record("status", Snapshot, "ok")
       ELSE Record("status", "", "error")
    /\ UNCHANGED <<ctlState, rec_running, translator_running, queues, stats,
                   workers, starters, start_ret, stop_pc, poolState, units,
                   after_stop, clean_stop, source_lang, appOnly, outside>>

(* ------------------------------------------------------------ audio worker *)
\* _audio_worker -> AudioRecorder.start: self.running = running_flag (a lambda,
\* always truthy); opening the input stream may raise, which _audio_worker
\* counts as an error
AudioStart(g) ==
    /\ workers[g].audio = "start"
    /\ rec_running' = TRUE
    /\ \/ /\ workers' = [workers EXCEPT ![g].audio = "rec"]
          /\ UNCHANGED stats
       \/ /\ workers' = [workers EXCEPT ![g].audio = "done"]
          /\ stats' = Bump("errors")
    /\ UNCHANGED <<ctlState, translator_running, queues, starters, start_ret,
                   stop_pc, poolState, units, ctlHist,
                   source_lang, appOnly, outside>>

\* one speech segment is complete: audio_queue.put(audio_data), a blocking put
AudioCapture(g) ==
    /\ workers[g].audio = "rec"
    /\ rec_running
    /\ Budget
    /\ Len(audio_queue) < AudioQueueMax
    /\ units' = units + 1
    /\ audio_queue' = Append(audio_queue, units + 1)
    /\ UNCHANGED <<ctlState, rec_running, translator_running,
                   transcription_queue, translation_queue, tts_queue, stats,
                   workers, starters, start_ret, stop_pc, poolState, ctlHist,
                   source_lang, appOnly, outside>>

\* while self.running: observed false
AudioExit(g) ==
    /\ workers[g].audio = "rec"
    /\ ~rec_running
    /\ workers' = [workers EXCEPT ![g].audio = "done"]
    /\ UNCHANGED <<ctlState, rec_running, translator_running, queues, stats,
                   starters, start_ret, stop_pc, poolState, units, ctlHist,
                   source_lang, appOnly, outside>>

(* ---------------------------------------------------- transcription worker *)
\* variant: the polling loop without the is_set() test
TsPoll_NoPauseTest(g) ==
    /\ workers[g].ts = "poll"
    /\ IF ~Live
       THEN workers' = [workers EXCEPT ![g].ts = "done"]
       ELSE workers' = [workers EXCEPT ![g].ts = "get"]
    /\ UNCHANGED <<ctlState, rec_running, translator_running, queues, stats,
                   starters, start_ret, stop_pc, poolState, units, ctlHist,
                   source_lang, appOnly, outside>>

\* loop guard, then paused_event.wait(timeout=0.1) and the is_set() test
TsPoll(g) ==
    /\ workers[g].ts = "poll"
    /\ IF ~Live
       THEN workers' = [workers EXCEPT ![g].ts = "done"]
       ELSE /\ paused_event
            /\ workers' = [workers EXCEPT ![g].ts = "get"]
    /\ UNCHANGED <<ctlState, rec_running, translator_running, queues, stats,
                   starters, start_ret, stop_pc, poolState, units, ctlHist,
                   source_lang, appOnly, outside>>

\* audio_queue.get(timeout=0.5), then executor.submit(_process_transcription)
TsGet(g) ==
    /\ workers[g].ts = "get"
    /\ IF audio_queue = <<>>
       THEN /\ workers' = [workers EXCEPT ![g].ts = "poll"]
            /\ UNCHANGED <<audio_queue, stats>>
       ELSE /\ audio_queue' = Tail(audio_queue)
            /\ IF executor_down
               THEN /\ workers' = [workers EXCEPT
                          ![g].ts = "poll",
                          ![g].taken = IF paused_event THEN 0 ELSE @ + 1]
                    /\ stats' = Bump("errors")
               ELSE /\ workers' = [workers EXCEPT
                          ![g].ts = "result",
                          ![g].ts_item = [id |-> Head(audio_queue), lang |-> "none"],
                          ![g].taken = IF paused_event THEN 0 ELSE @ + 1]
                    /\ UNCHANGED stats
    /\ UNCHANGED <<ctlState, rec_running, translator_running,
                   transcription_queue, translation_queue, tts_queue, starters,
                   start_ret, stop_pc, poolState, units, ctlHist,
                   source_lang, appOnly, outside>>

\* future.result(timeout=5.0) returns what the transcriber detected
TsResult(g) ==
    /\ workers[g].ts = "result"
    /\ StaleTotal < PoolWorkers
    /\ \E d \in DetectOutcomes :
          IF d \in Languages /\ d # target_lang
          THEN /\ workers' = [workers EXCEPT ![g].ts = "put", ![g].ts_item.lang = d]
               /\ source_lang' = d
          ELSE /\ workers' = [workers EXCEPT ![g].ts = "poll"]
               /\ UNCHANGED source_lang
    /\ UNCHANGED <<ctlState, rec_running, translator_running, queues, stats,
                   starters, start_ret, stop_pc, poolState, units, ctlHist,
                   appOnly, outside>>

\* future.result(timeout=5.0) raises TimeoutError; the call keeps its pool thread
TsTimeout(g) ==
    /\ workers[g].ts = "result"
    /\ workers' = [workers EXCEPT ![g].ts = "poll"]
    /\ stale' = [stale EXCEPT !["transcribe"] = @ + 1]
    /\ stats' = Bump("errors")
    /\ UNCHANGED <<ctlState, rec_running, translator_running, queues, starters,
                   start_ret, stop_pc, tts_tasks, spoken, units, ctlHist,
                   source_lang, appOnly, outside>>

\* transcription_queue.put(...), a blocking put; stats['transcriptions'] += 1
TsPut(g) ==
    /\ workers[g].ts = "put"
    /\ Len(transcription_queue) < TranscriptionQueueMax
    /\ transcription_queue' = Append(transcription_queue, workers[g].ts_item)
    /\ stats' = Bump("transcriptions")
    /\ workers' = [workers EXCEPT
                     ![g].ts = "poll",
                     ![g].emitted = IF paused_event THEN 0 ELSE @ + 1]
    /\ UNCHANGED <<ctlState, rec_running, translator_running, audio_queue,
                   translation_queue, tts_queue, starters, start_ret, stop_pc,
                   poolState, units, ctlHist,
                   source_lang, appOnly, outside>>

(* ------------------------------------------------------ translation worker *)
\* loop guard, transcription_queue.get(timeout=0.1), executor.submit(_translate_text)
TrPoll(g) ==
    /\ workers[g].tr = "poll"
    /\ IF ~Live
       THEN /\ workers' = [workers EXCEPT ![g].tr = "done"]
            /\ UNCHANGED <<transcription_queue, stats>>
       ELSE /\ transcription_queue # <<>>
            /\ transcription_queue' = Tail(transcription_queue)
            /\ IF executor_down
               THEN /\ stats' = Bump("errors")
                    /\ UNCHANGED workers
               ELSE /\ workers' = [workers EXCEPT
                          ![g].tr = "result",
                          ![g].tr_item = [id |-> Head(transcription_queue).id,
                                          src |-> Head(transcription_queue).lang,
                                          tgt |-> "none"]]
                    /\ UNCHANGED stats
    /\ UNCHANGED <<ctlState, rec_running, translator_running, audio_queue,
                   translation_queue, tts_queue, starters, start_ret, stop_pc,
                   poolState, units, ctlHist,
                   source_lang, appOnly, outside>>

\* _translate_text ran self.translator.translate(text, source_lang) and
\* future.result(timeout=3.0) returned its value: None when the translator
\* lookup raised, the text itself when source = target, else text or ""
TrResult(g) ==
    /\ workers[g].tr = "result"
    /\ StaleTotal < PoolWorkers
    /\ \E out \in {"text", "empty"} :
          /\ workers[g].tr_item.src = target_lang => out = "text"
          /\ IF HasTranslator /\ out = "text"
             THEN workers' = [workers EXCEPT ![g].tr = "put_tr",
                                             ![g].tr_item.tgt = target_lang]
             ELSE workers' = [workers EXCEPT ![g].tr = "poll"]
    /\ UNCHANGED <<ctlState, rec_running, translator_running, queues, stats,
                   starters, start_ret, stop_pc, poolState, units, ctlHist,
                   source_lang, appOnly, outside>>

\* future.result(timeout=3.0) raises TimeoutError; the call keeps its pool
\* thread and its eventual value is dropped with the future
TrTimeout(g) ==
    /\ workers[g].tr = "result"
    /\ workers' = [workers EXCEPT ![g].tr = "poll"]
    /\ stale' = [stale EXCEPT !["translate"] = @ + 1]
    /\ stats' = Bump("errors")
    /\ UNCHANGED <<ctlState, rec_running, translator_running, queues, starters,
                   start_ret, stop_pc, tts_tasks, spoken, units, ctlHist,
                   source_lang, appOnly, outside>>

\* variant: a put that appends whatever the size of the channel
TrPutTranslation_Unbounded(g) ==
    /\ workers[g].tr = "put_tr"
    /\ translation_queue' = Append(translation_queue, workers[g].tr_item)
    /\ workers' = [workers EXCEPT ![g].tr = "put_tts"]
    /\ UNCHANGED <<ctlState, rec_running, translator_running, audio_queue,
                   transcription_queue, tts_queue, stats, starters, start_ret,
                   stop_pc, poolState, units, ctlHist,
                   source_lang, appOnly, outside>>

\* self.translation_queue.put(translation), a blocking put
TrPutTranslation(g) ==
    /\ workers[g].tr = "put_tr"
    /\ Len(translation_queue) < TranslationQueueMax
    /\ translation_queue' = Append(translation_queue, workers[g].tr_item)
    /\ workers' = [workers EXCEPT ![g].tr = "put_tts"]
    /\ UNCHANGED <<ctlState, rec_running, translator_running, audio_queue,
                   transcription_queue, tts_queue, stats, starters, start_ret,
                   stop_pc, poolState, units, ctlHist,
                   source_lang, appOnly, outside>>

\* self.tts_queue.put(translation), a blocking put; stats['translations'] += 1
TrPutTts(g) ==
    /\ workers[g].tr = "put_tts"
    /\ Len(tts_queue) < TtsQueueMax
    /\ tts_queue' = Append(tts_queue, workers[g].tr_item)
    /\ stats' = Bump("translations")
    /\ workers' = [workers EXCEPT ![g].tr = "poll"]
    /\ UNCHANGED <<ctlState, rec_running, translator_running, audio_queue,
                   transcription_queue, translation_queue, starters, start_ret,
                   stop_pc, poolState, units, ctlHist,
                   source_lang, appOnly, outside>>

(* -------------------------------------------------------------- tts worker *)
\* loop guard, tts_queue.get(timeout=0.5), executor.submit(_synthesize_speech)
TtsPoll(g) ==
    /\ workers[g].tts = "poll"
    /\ IF ~Live
       THEN /\ workers' = [workers EXCEPT ![g].tts = "done"]
            /\ UNCHANGED <<tts_queue, tts_tasks, stats>>
       ELSE /\ tts_queue # <<>>
            /\ tts_queue' = Tail(tts_queue)
            /\ UNCHANGED workers
            /\ IF executor_down
               THEN /\ stats' = Bump("errors")
                    /\ UNCHANGED tts_tasks
               ELSE /\ tts_tasks' = tts_tasks \cup {Head(tts_queue)}
                    /\ UNCHANGED stats
    /\ UNCHANGED <<ctlState, rec_running, translator_running, audio_queue,
                   transcription_queue, translation_queue, starters, start_ret,
                   stop_pc, stale, spoken, units, ctlHist,
                   source_lang, appOnly, outside>>

(* ------------------------------------------------------------ pool calls *)
\* _synthesize_speech under tts_lock: self.synthesizer.speak(text); the lookup
\* raises inside the try when the synthesizer is gone
Speak ==
    /\ StaleTotal < PoolWorkers
    /\ \E t \in tts_tasks :
          /\ tts_tasks' = tts_tasks \ {t}
          /\ IF HasSynthesizer
             THEN spoken' = Append(spoken, [id |-> t.id, tgt |-> t.tgt,
                                            voice |-> target_lang])
             ELSE UNCHANGED spoken
    /\ UNCHANGED <<ctlState, rec_running, translator_running, queues, stats,
                   workers, starters, start_ret, stop_pc, stale, units, ctlHist,
                   source_lang, appOnly, outside>>

\* a transcribe / translate call abandoned by its caller finally returns
StaleReturn ==
    /\ \E k \in {"transcribe", "translate"} :
          /\ stale[k] > 0
          /\ stale' = [stale EXCEPT ![k] = @ - 1]
    /\ UNCHANGED <<ctlState, rec_running, translator_running, queues, stats,
                   workers, starters, start_ret, stop_pc, tts_tasks, spoken,
                   units, ctlHist,
                   source_lang, appOnly, outside>>

(* ------------------------------------------------------------------- Next *)
AudioWorker ==
    \/ \E g \in Gens : AudioStart(g)
    \/ \E g \in Gens : AudioCapture(g)
    \/ \E g \in Gens : AudioExit(g)
TranscriptionWorker ==
    \/ \E g \in Gens : TsPoll(g)
    \/ \E g \in Gens : TsGet(g)
    \/ \E g \in Gens : TsResult(g)
    \/ \E g \in Gens : TsTimeout(g)
    \/ \E g \in Gens : TsPut(g)
TranslationWorker ==
    \/ \E g \in Gens : TrPoll(g)
    \/ \E g \in Gens : TrResult(g)
    \/ \E g \in Gens : TrTimeout(g)
    \/ \E g \in Gens : TrPutTranslation(g)
    \/ \E g \in Gens : TrPutTts(g)
TtsWorker ==
    \/ \E g \in Gens : TtsPoll(g)
StartThread == StartCheck \/ StartSet \/ StartClear \/ StartLaunch \/ StartFinish
StopThread == StopJoin \/ StopCleanup \/ StopAwait \/ StopClear \/ StopReturn
Workers == AudioWorker \/ TranscriptionWorker \/ TranslationWorker \/ TtsWorker

Next ==
    \/ StartCall
    \/ StopCall
    \/ PauseCall
    \/ ResumeCall
    \/ ChangeLanguage
    \/ GetStatus
    \/ StartThread
    \/ StopThread
    \/ Workers
    \/ Speak
    \/ StaleReturn

Spec == Init /\ [][Next]_vars

(***************************************************************************)
(* The same pipeline observed late in a run (src/app2.py).  Nothing reads  *)
(* translation_queue while the pipeline runs (only _clear_queues empties   *)
(* it), so each translated segment leaves one more result in it; the other *)
(* channels fill while their consumer is paused, stalled or slow.  The     *)
(* initial states below are states the pipeline is in after such a run,    *)
(* with two further events of the budget left (one where the translation   *)
(* worker is already stalled).                                             *)
(***************************************************************************)
Backlogs == {"results", "stalled", "slow_tts"}

OldSegment == [id |-> 0, lang |-> "fr"]
OldResult == [id |-> 0, src |-> "fr", tgt |-> DefaultTarget]
Filled(n, item) == [i \in 1..n |-> item]

\* the stage threads of start() after the recorder opened its stream
RunningWorkers == [NewWorkers EXCEPT !.audio = "rec"]

InitBacklog ==
    /\ running = TRUE
    /\ shutdown_event = FALSE
    /\ target_lang = DefaultTarget
    /\ source_lang = "fr"
    /\ sentence_buffer = <<>>
    /\ translators = Languages
    /\ synthesizers = Languages
    /\ executor_down = FALSE
    /\ paused_event = TRUE
    /\ rec_running = TRUE
    /\ translator_running = FALSE
    /\ audio_queue = <<>>
    /\ starters = NoStarters
    /\ start_ret = "true"
    /\ stop_pc = "idle"
    /\ stale = [transcribe |-> 0, translate |-> 0]
    /\ tts_tasks = {}
    /\ spoken = <<>>
    /\ units = 0
    /\ after_stop = FALSE
    /\ clean_stop = FALSE
    /\ translator_lang = DefaultTarget
    /\ synth_lang = DefaultTarget
    /\ recent_translations = {}
    /\ exchanges = <<>>
    /\ cmd_pc = "idle"
    /\ LibIdle
    /\ \E load \in Backlogs :
          /\ calls = IF load = "stalled" THEN MaxEvents - 1 ELSE MaxEvents - 2
          /\ transcription_queue =
                Filled(IF load = "stalled" THEN TranscriptionQueueMax - 1 ELSE 0,
                       OldSegment)
          /\ translation_queue =
                Filled(CASE load = "results" -> TranslationQueueMax - 1
                         [] load = "stalled" -> TranslationQueueMax
                         [] load = "slow_tts" -> TtsQueueMax - 1
                         [] OTHER -> 0,
                       OldResult)
          /\ tts_queue =
                Filled(IF load = "slow_tts" THEN TtsQueueMax - 1 ELSE 0, OldResult)
          /\ workers =
                << IF load = "stalled"
                   THEN [RunningWorkers EXCEPT !.tr = "put_tr", !.tr_item = OldResult]
                   ELSE RunningWorkers >>
          /\ stats = [transcriptions |-> Len(transcription_queue)
                                          + Len(translation_queue)
                                          + (IF load = "stalled" THEN 1 ELSE 0),
                      translations |-> Len(translation_queue),
                      errors |-> 0]
          /\ trail = IF load = "stalled" THEN <<"start", "status", "status">>
                                         ELSE <<"start", "status">>
          /\ resp = Answer("status", Snapshot, "ok")

SpecBacklog == InitBacklog /\ [][Next]_vars

\* the steps of one thread of generation g, and of the pool
TranscriptionThread(g) ==
    g \in Gens /\ (TsPoll(g) \/ TsGet(g) \/ TsResult(g) \/ TsTimeout(g) \/ TsPut(g))
TranslationThread(g) ==
    g \in Gens /\ (TrPoll(g) \/ TrResult(g) \/ TrTimeout(g)
                     \/ TrPutTranslation(g) \/ TrPutTts(g))
TtsThread(g) == g \in Gens /\ TtsPoll(g)

\* every thread that can take a step eventually takes one; requests are not
\* obliged to arrive and the microphone is not obliged to hear speech
FairSpecBacklog ==
    /\ SpecBacklog
    /\ WF_vars(StartThread)
    /\ WF_vars(StopThread)
    /\ WF_vars(Speak)
    /\ WF_vars(StaleReturn)
    /\ \A g \in GenIds : /\ WF_vars(TranscriptionThread(g))
                         /\ WF_vars(TranslationThread(g))
                         /\ WF_vars(TtsThread(g))

(***************************************************************************)
(* TrilingualTranslator and its Flask control surface (src/app.py).        *)
(* start() runs inside the request, under translator_lock; there is no     *)
(* shutdown event, worker pool or tts queue; pause() and resume() are the  *)
(* same code as in src/app2.py (PauseCall, ResumeCall), and the recorder   *)
(* is the same AudioRecorder (AudioCapture, AudioExit).                    *)
(***************************************************************************)
AppTranscriptionQueueMax == 10
AppTranslationQueueMax == 5
FlushWords == 3
SegmentWords == {1, 3}

NewAppWorkers == [audio |-> "start",
                  ts |-> "poll", ts_item |-> [id |-> 0, lang |-> "none", words |-> 0],
                  taken |-> 0, emitted |-> 0,
                  tr |-> "poll", tr_item |-> [id |-> 0, src |-> "none", tgt |-> "none"],
                  tts |-> "done"]

RECURSIVE WordCount(_)
\* len(self.sentence_buffer.split())
WordCount(buf) == IF buf = <<>> THEN 0 ELSE Head(buf).words + WordCount(Tail(buf))

\* POST /start: translator.start() under translator_lock
AppStartCall ==
    /\ CanCall
    /\ IF running
       THEN /\ Record("start", "", "already_running")
            /\ UNCHANGED <<running, workers>>
       ELSE /\ Record("start", "", "started")
            /\ running' = TRUE
            /\ workers' = Append(workers, NewAppWorkers)
    /\ UNCHANGED <<paused_event, target_lang, source_lang, rec_running,
                   audio_queue, transcription_queue, translation_queue,
                   stop_pc, spoken, units, appOnly, app2Only, outside>>

\* POST /stop: stop() sets running = False and calls audio_recorder.stop()
AppStopCall ==
    /\ CanCall
    /\ running' = FALSE
    /\ rec_running' = FALSE
    /\ stop_pc' = "join"
    /\ Record("stop", "", "pending")
    /\ UNCHANGED <<paused_event, target_lang, source_lang, audio_queue,
                   transcription_queue, translation_queue, workers, spoken,
                   units, appOnly, app2Only, outside>>

\* thread.join(timeout=1) for every thread: a bounded wait
AppStopJoin ==
    /\ stop_pc = "join"
    /\ stop_pc' = "clear"
    /\ UNCHANGED <<running, paused_event, target_lang, source_lang, rec_running,
                   audio_queue, transcription_queue, translation_queue,
                   workers, spoken, units, calls, resp, trail, appOnly,
                   app2Only, outside>>

\* _clear_queues
AppStopClear ==
    /\ stop_pc = "clear"
    /\ audio_queue' = <<>>
    /\ transcription_queue' = <<>>
    /\ translation_queue' = <<>>
    /\ stop_pc' = "ret"
    /\ UNCHANGED <<running, paused_event, target_lang, source_lang, rec_running,
                   workers, spoken, units, calls, resp, trail, appOnly,
                   app2Only, outside>>

\* status stopped
AppStopReturn ==
    /\ stop_pc = "ret"
    /\ resp' = Answer("stop", "", "stopped")
    /\ stop_pc' = "idle"
    /\ UNCHANGED <<running, paused_event, target_lang, source_lang, rec_running,
                   audio_queue, transcription_queue, translation_queue,
                   workers, spoken, units, calls, trail, appOnly, app2Only, outside>>

\* _audio_worker -> AudioRecorder.start; an exception from opening the stream
\* ends the thread
AppAudioStart(g) ==
    /\ workers[g].audio = "start"
    /\ rec_running' = TRUE
    /\ \/ workers' = [workers EXCEPT ![g].audio = "rec"]
       \/ workers' = [workers EXCEPT ![g].audio = "done"]
    /\ UNCHANGED <<running, paused_event, target_lang, source_lang,
                   audio_queue, transcription_queue, translation_queue,
                   stop_pc, spoken, units, calls, resp, trail, appOnly,
                   app2Only, outside>>

\* while self.running
AppTsLoop(g) ==
    /\ workers[g].ts = "poll"
    /\ workers' = [workers EXCEPT ![g].ts = IF running THEN "wait" ELSE "done"]
    /\ UNCHANGED <<running, paused_event, target_lang, source_lang, rec_running,
                   audio_queue, transcription_queue, translation_queue,
                   stop_pc, spoken, units, calls, resp, trail, appOnly,
                   app2Only, outside>>

\* self.paused_event.wait(): no timeout, returns once the event is set
AppTsWait(g) ==
    /\ workers[g].ts = "wait"
    /\ paused_event
    /\ workers' = [workers EXCEPT ![g].ts = "get"]
    /\ UNCHANGED <<running, paused_event, target_lang, source_lang, rec_running,
                   audio_queue, transcription_queue, translation_queue,
                   stop_pc, spoken, units, calls, resp, trail, appOnly,
                   app2Only, outside>>

\* audio_queue.get(timeout=0.5)
AppTsGet(g) ==
    /\ workers[g].ts = "get"
    /\ IF audio_queue = <<>>
       THEN /\ workers' = [workers EXCEPT ![g].ts = "poll"]
            /\ UNCHANGED audio_queue
       ELSE /\ audio_queue' = Tail(audio_queue)
            /\ workers' = [workers EXCEPT
                  ![g].ts = "result",
                  ![g].ts_item = [id |-> Head(audio_queue), lang |-> "none",
                                  words |-> 0],
                  ![g].taken = IF paused_event THEN 0 ELSE @ + 1]
    /\ UNCHANGED <<running, paused_event, target_lang, source_lang, rec_running,
                   transcription_queue, translation_queue, stop_pc, spoken,
                   units, calls, resp, trail, appOnly, app2Only, outside>>

\* self.transcriber.transcribe(audio_data) returns; the language tests
AppTsResult(g) ==
    /\ workers[g].ts = "result"
    /\ \E d \in DetectOutcomes, w \in SegmentWords :
          IF d \in Languages /\ d # target_lang
          THEN /\ workers' = [workers EXCEPT
                     ![g].ts = "put",
                     ![g].ts_item = [id |-> @.id, lang |-> d, words |-> w]]
               /\ source_lang' = d
          ELSE /\ workers' = [workers EXCEPT ![g].ts = "poll"]
               /\ UNCHANGED source_lang
    /\ UNCHANGED <<running, paused_event, target_lang, rec_running,
                   audio_queue, transcription_queue, translation_queue,
                   stop_pc, spoken, units, calls, resp, trail, appOnly,
                   app2Only, outside>>

\* self.transcription_queue.put((text, detected_lang)), a blocking put
AppTsPut(g) ==
    /\ workers[g].ts = "put"
    /\ Len(transcription_queue) < AppTranscriptionQueueMax
    /\ transcription_queue' = Append(transcription_queue, workers[g].ts_item)
    /\ workers' = [workers EXCEPT
                     ![g].ts = "poll",
                     ![g].emitted = IF paused_event THEN 0 ELSE @ + 1]
    /\ UNCHANGED <<running, paused_event, target_lang, source_lang, rec_running,
                   audio_queue, translation_queue, stop_pc, spoken, units,
                   calls, resp, trail, appOnly, app2Only, outside>>

\* while self.running; transcription_queue.get(timeout=0.2) appends the text
\* to the sentence buffer, queue.Empty is passed over
AppTrPoll(g) ==
    /\ workers[g].tr = "poll"
    /\ IF ~running
       THEN /\ workers' = [workers EXCEPT ![g].tr = "done"]
            /\ UNCHANGED <<transcription_queue, sentence_buffer>>
       ELSE /\ workers' = [workers EXCEPT ![g].tr = "check"]
            /\ IF transcription_queue = <<>>
               THEN UNCHANGED <<transcription_queue, sentence_buffer>>
               ELSE /\ transcription_queue' = Tail(transcription_queue)
                    /\ sentence_buffer' =
                           Append(sentence_buffer, Head(transcription_queue))
    /\ UNCHANGED <<running, paused_event, target_lang, source_lang, rec_running,
                   audio_queue, translation_queue, stop_pc, spoken, units,
                   calls, resp, trail, app2Only, outside>>

\* the flush test: buffer non-empty and (delay elapsed or at least 3 words)
AppTrCheck(g) ==
    /\ workers[g].tr = "check"
    /\ \E elapsed \in BOOLEAN :
          IF sentence_buffer # <<>>
             /\ (elapsed \/ WordCount(sentence_buffer) >= FlushWords)
          THEN workers' = [workers EXCEPT ![g].tr = "translate"]
          ELSE workers' = [workers EXCEPT ![g].tr = "poll"]
    /\ UNCHANGED <<running, paused_event, target_lang, source_lang, rec_running,
                   audio_queue, transcription_queue, translation_queue,
                   stop_pc, spoken, units, calls, resp, trail, appOnly,
                   app2Only, outside>>

\* self.translator.translate(self.sentence_buffer, self.source_lang): None
\* when the source is the target or the model fails, else the translation
AppTrTranslate(g) ==
    /\ workers[g].tr = "translate"
    /\ \E out \in {"text", "none"} :
          IF out = "text" /\ source_lang # target_lang /\ sentence_buffer # <<>>
          THEN /\ workers' = [workers EXCEPT
                     ![g].tr = "put",
                     ![g].tr_item = [id |-> Head(sentence_buffer).id,
                                     src |-> source_lang, tgt |-> target_lang]]
               /\ UNCHANGED sentence_buffer
          ELSE /\ workers' = [workers EXCEPT ![g].tr = "poll"]
               /\ sentence_buffer' = <<>>
    /\ UNCHANGED <<running, paused_event, target_lang, source_lang, rec_running,
                   audio_queue, transcription_queue, translation_queue,
                   stop_pc, spoken, units, calls, resp, trail, app2Only, outside>>

\* self.translation_queue.put(translation), a blocking put
AppTrPut(g) ==
    /\ workers[g].tr = "put"
    /\ Len(translation_queue) < AppTranslationQueueMax
    /\ translation_queue' = Append(translation_queue, workers[g].tr_item)
    /\ workers' = [workers EXCEPT ![g].tr = "speak"]
    /\ UNCHANGED <<running, paused_event, target_lang, source_lang, rec_running,
                   audio_queue, transcription_queue, stop_pc, spoken, units,
                   calls, resp, trail, appOnly, app2Only, outside>>

\* self.synthesizer.speak(translation); self.sentence_buffer = ""
AppTrSpeak(g) ==
    /\ workers[g].tr = "speak"
    /\ spoken' = Append(spoken, [id |-> workers[g].tr_item.id,
                                 tgt |-> workers[g].tr_item.tgt,
                                 voice |-> target_lang])
    /\ sentence_buffer' = <<>>
    /\ workers' = [workers EXCEPT ![g].tr = "poll"]
    /\ UNCHANGED <<running, paused_event, target_lang, source_lang, rec_running,
                   audio_queue, transcription_queue, translation_queue,
                   stop_pc, units, calls, resp, trail, app2Only, outside>>


AppAudioWorker ==
    \/ \E g \in Gens : AppAudioStart(g)
    \/ \E g \in Gens : AudioCapture(g)
    \/ \E g \in Gens : AudioExit(g)
AppTranscriptionWorker ==
    \/ \E g \in Gens : AppTsLoop(g)
    \/ \E g \in Gens : AppTsWait(g)
    \/ \E g \in Gens : AppTsGet(g)
    \/ \E g \in Gens : AppTsResult(g)
    \/ \E g \in Gens : AppTsPut(g)
AppTranslationWorker ==
    \/ \E g \in Gens : AppTrPoll(g)
    \/ \E g \in Gens : AppTrCheck(g)
    \/ \E g \in Gens : AppTrTranslate(g)
    \/ \E g \in Gens : AppTrPut(g)
    \/ \E g \in Gens : AppTrSpeak(g)
AppStopThread == AppStopJoin \/ AppStopClear \/ AppStopReturn

NextApp ==
    \/ AppStartCall
    \/ AppStopCall
    \/ PauseCall
    \/ ResumeCall
    \/ GetStatus
    \/ AppStopThread
    \/ AppAudioWorker
    \/ AppTranscriptionWorker
    \/ AppTranslationWorker

SpecApp == Init /\ [][NextApp]_vars

\* the steps of one thread of generation g
AppAudioThread(g) ==
    g \in Gens /\ (AppAudioStart(g) \/ AudioCapture(g) \/ AudioExit(g))
AppTranscriptionThread(g) ==
    g \in Gens /\ (AppTsLoop(g) \/ AppTsWait(g) \/ AppTsGet(g)
                     \/ AppTsResult(g) \/ AppTsPut(g))
AppTranslationThread(g) ==
    g \in Gens /\ (AppTrPoll(g) \/ AppTrCheck(g) \/ AppTrTranslate(g)
                     \/ AppTrPut(g) \/ AppTrSpeak(g))

\* every thread that can take a step eventually takes one; requests are not
\* obliged to arrive
FairSpecApp ==
    /\ SpecApp
    /\ WF_vars(AppStopThread)
    /\ \A g \in GenIds : /\ WF_vars(AppAudioThread(g))
                         /\ WF_vars(AppTranscriptionThread(g))
                         /\ WF_vars(AppTranslationThread(g))

(***************************************************************************)
(* Sentence completeness (src/translation/translator.py,                   *)
(* src/translation/translator2.py, src/language_detection/detector.py).    *)
(* A text is a sequence of tokens: a whitespace character, a terminal      *)
(* punctuation character, or a run of letters taken from a small           *)
(* vocabulary.  A word of str.split() is a maximal run of non-whitespace   *)
(* tokens, so "is" followed by "." is the word "is.", not the word "is".   *)
(***************************************************************************)
Space == " "
Terminals == {".", "!", "?"}
\* letters: an ordinary word, a capitalised and a lower-case question word,
\* a question word that is also a common verb, a verb, one clause connector
\* of each language, the two words of a French connector
Letters == {"w", "How", "how", "is", "was", "and", "y", "et", "parce", "que"}
Tokens == Letters \cup Terminals \cup {Space}

LongSentenceWords == 8
VerbSentenceWords == 6

\* str.lower()
Lower(c) == IF c = "How" THEN "how" ELSE c
LowerText(t) == [i \in 1..Len(t) |-> Lower(t[i])]

RECURSIVE LStrip(_)
LStrip(t) == IF t # <<>> /\ Head(t) = Space THEN LStrip(Tail(t)) ELSE t
RECURSIVE RStrip(_)
RStrip(t) ==
    IF t # <<>> /\ t[Len(t)] = Space THEN RStrip(SubSeq(t, 1, Len(t) - 1)) ELSE t
\* str.strip()
Strip(t) == RStrip(LStrip(t))

RECURSIVE SplitAcc(_, _, _)
SplitAcc(t, cur, acc) ==
    IF t = <<>>
    THEN IF cur = <<>> THEN acc ELSE Append(acc, cur)
    ELSE IF Head(t) = Space
         THEN SplitAcc(Tail(t), <<>>, IF cur = <<>> THEN acc ELSE Append(acc, cur))
         ELSE SplitAcc(Tail(t), Append(cur, Head(t)), acc)
\* str.split(): the words of a text
Split(t) == SplitAcc(t, <<>>, <<>>)

\* re.search(r'[.!?]\s*$', text)
EndsWithTerminal(t) ==
    LET r == RStrip(t) IN r # <<>> /\ r[Len(r)] \in Terminals

\* word in (list of single words)
WordIn(w, list) == Len(w) = 1 /\ w[1] \in list

QuestionWords == {"how", "is"}
CommonVerbs == {"is", "was"}
\* entries of the connectors lists, each a string: a single word, or the
\* two words of "parce que" with the blank between them
Connectors(lang) ==
    CASE lang = "en" -> {<<"and">>}
      [] lang = "es" -> {<<"y">>}
      [] lang = "fr" -> {<<"et">>, <<"parce", Space, "que">>}
      [] OTHER -> {}

\* variant of translation/translator.py that only counts words
IsCompleteBasic_WordsOnly(t) ==
    Len(Split(Strip(LowerText(t)))) > LongSentenceWords

\* Translator.is_complete_sentence of translation/translator.py
IsCompleteBasic(text) ==
    LET t == Strip(LowerText(text)) IN
    IF t = <<>> THEN FALSE
    ELSE IF EndsWithTerminal(t) THEN TRUE
    ELSE Len(Split(t)) > LongSentenceWords

\* LanguageDetector.is_complete_sentence(text, source_lang)
IsCompleteDetector(text, lang) ==
    LET t == Strip(LowerText(text))
        words == Split(t)
    IN  IF t = <<>> THEN FALSE
        ELSE IF EndsWithTerminal(t) THEN TRUE
        ELSE IF words = <<>> THEN FALSE
        ELSE IF lang = "none" THEN Len(words) > LongSentenceWords
        ELSE IF words[Len(words)] \in Connectors(lang) THEN FALSE
        ELSE Len(words) > LongSentenceWords

\* Translator.is_complete_sentence of translation/translator2.py
IsCompleteT2(text) ==
    LET t == Strip(text)
        first_word == IF Split(t) # <<>> THEN LowerText(Split(t)[1]) ELSE <<>>
        words == Split(LowerText(t))
    IN  IF t = <<>> THEN FALSE
        ELSE IF EndsWithTerminal(t) THEN TRUE
        ELSE IF WordIn(first_word, QuestionWords) THEN TRUE
        ELSE /\ Len(words) > VerbSentenceWords
             /\ \E i \in 1..Len(words) : WordIn(words[i], CommonVerbs)

\* ContextAwareTranslator of mcp/mcp2.py
NonTerminalEndings == {"and"}
ContextIncompleteWords == 3
TopicWords == {"w", "is"}
\* topic in text.lower(): the topic occurs somewhere in the string, inside a
\* longer word as well ("w" in "how" and in "was")
Occurs(topic, c) == topic = c \/ (topic = "w" /\ c \in {"how", "was"})
TopicInText(topic, text) == \E i \in 1..Len(text) : Occurs(topic, Lower(text[i]))

\* is_likely_incomplete_sentence(text), tops being get_top_topics()
IsLikelyIncomplete(text, tops) ==
    LET words == Split(Strip(text)) IN
    IF Len(words) < ContextIncompleteWords THEN TRUE
    ELSE IF WordIn(LowerText(words[Len(words)]), NonTerminalEndings) THEN TRUE
    ELSE tops # {} /\ ~\E topic \in tops : TopicInText(topic, text)

\* ContextAwareTranslator.is_complete_sentence(text)
IsCompleteContext(text, tops) ==
    IsCompleteT2(text) /\ ~IsLikelyIncomplete(text, tops)

(***************************************************************************)
(* Command-line TrilingualTranslator (src/main.py).                        *)
(* Its translator is a ContextAwareTranslator around the Translator of     *)
(* src/translation/translator2.py.  main.py constructs the wrapper with    *)
(* three arguments and calls its translate_with_context and                *)
(* update_target_language: the class of src/mcp/mcp.py (lines 369-417) is  *)
(* the one with that constructor and those methods, and is the one         *)
(* modelled.  Its update_target_language calls                             *)
(* base_translator.update_target_language, which translator2.Translator    *)
(* does not define: the call raises AttributeError, which leaves           *)
(* change_target_language at line 112 and is caught by the command loop.   *)
(***************************************************************************)
MainTranscriptionQueueMax == 10
MainTranslationQueueMax == 5
RecentMax == 10
MainTexts == {<<"w">>, <<"w", ".">>, <<"w", Space, "w", Space, "w">>}

\* the answer given at the prompt of get_target_language
MainTargetInputs == {"en"}

EmptyBuffer == [text |-> <<>>, segs |-> <<>>]

\* variables the command-line translator never touches
notMain == <<libOnly, paused_event, stop_pc, shutdown_event, translators, synthesizers,
             executor_down, translator_running, stats, starters, start_ret,
             stale, tts_tasks, after_stop, clean_stop>>
mainCtl == <<running, target_lang, translator_lang, synth_lang>>
mainHist == <<calls, resp, trail>>

NewMainWorkers == [audio |-> "start",
                   ts |-> "poll", ts_item |-> [id |-> 0, lang |-> "none", text |-> <<>>],
                   tr |-> "poll", tr_item |-> [id |-> 0, src |-> "none", tgt |-> "none"],
                   tts |-> "poll"]

\* TrilingualTranslator.__init__: the target language is read from the user
InitMainObject ==
    /\ running = TRUE
    /\ target_lang \in MainTargetInputs
    /\ translator_lang = target_lang
    /\ synth_lang = target_lang
    /\ source_lang = "none"
    /\ sentence_buffer = EmptyBuffer
    /\ recent_translations = {}
    /\ exchanges = <<>>
    /\ cmd_pc = "idle"
    /\ LibIdle
    /\ rec_running = TRUE
    /\ audio_queue = <<>>
    /\ transcription_queue = <<>>
    /\ translation_queue = <<>>
    /\ tts_queue = <<>>
    /\ spoken = <<>>
    /\ units = 0
    /\ shutdown_event = FALSE
    /\ paused_event = TRUE
    /\ translators = Languages
    /\ synthesizers = Languages
    /\ executor_down = FALSE
    /\ translator_running = FALSE
    /\ stats = [transcriptions |-> 0, translations |-> 0, errors |-> 0]
    /\ starters = NoStarters
    /\ start_ret = "none"
    /\ stop_pc = "idle"
    /\ stale = [transcribe |-> 0, translate |-> 0]
    /\ tts_tasks = {}
    /\ after_stop = FALSE
    /\ clean_stop = FALSE

InitMain ==
    /\ InitMainObject
    /\ workers = <<>>
    /\ calls = 0
    /\ resp = Answer("none", "", "none")
    /\ trail = <<>>

\* start(): the four worker threads are started, then the command loop runs
MainStart ==
    /\ workers = <<>>
    /\ cmd_pc = "idle"
    /\ workers' = <<NewMainWorkers>>
    /\ UNCHANGED <<mainCtl, source_lang, sentence_buffer, rec_running, queues,
                   spoken, units, mainHist, recent_translations, exchanges,
                   cmd_pc, notMain>>

\* command 'lang': change_target_language up to self.target_lang = new_target
MainLangCommand(new_lang) ==
    /\ cmd_pc = "idle"
    /\ running
    /\ workers # <<>>
    /\ Budget
    /\ IF new_lang \notin Languages
       THEN /\ Record("change_language", new_lang, "invalid_language")
            /\ UNCHANGED <<target_lang, cmd_pc>>
       ELSE IF new_lang = target_lang
       THEN /\ Record("change_language", new_lang, "language_not_changed")
            /\ UNCHANGED <<target_lang, cmd_pc>>
       ELSE /\ Record("change_language", new_lang, "pending")
            /\ target_lang' = new_lang
            /\ cmd_pc' = "clear"
    /\ UNCHANGED <<running, translator_lang, synth_lang, source_lang,
                   sentence_buffer, rec_running, queues, workers, spoken, units,
                   recent_translations, exchanges, notMain>>

\* change_target_language: self._clear_queues()
MainLangClear ==
    /\ cmd_pc = "clear"
    /\ audio_queue' = <<>>
    /\ transcription_queue' = <<>>
    /\ translation_queue' = <<>>
    /\ tts_queue' = <<>>
    /\ cmd_pc' = "update"
    /\ UNCHANGED <<mainCtl, source_lang, sentence_buffer, rec_running, workers,
                   spoken, units, mainHist, recent_translations, exchanges,
                   notMain>>

\* variant: update_target_language returns and the command goes on to the
\* resets of lines 119-120
MainLangUpdate_Completes ==
    /\ cmd_pc = "update"
    /\ translator_lang' = target_lang
    /\ synth_lang' = target_lang
    /\ source_lang' = "none"
    /\ sentence_buffer' = EmptyBuffer
    /\ resp' = Answer("change_language", resp.arg, "language_changed")
    /\ cmd_pc' = "idle"
    /\ UNCHANGED <<running, target_lang, rec_running, queues, workers, spoken,
                   units, calls, trail, recent_translations, exchanges, notMain>>
\* change_target_language: self.translator.update_target_language(new_target)
\* raises AttributeError; the synthesizer update and the resets of source_lang
\* and sentence_buffer that follow it are not reached
MainLangUpdate ==
    /\ cmd_pc = "update"
    /\ resp' = Answer("change_language", resp.arg, "command_error")
    /\ cmd_pc' = "idle"
    /\ UNCHANGED <<mainCtl, source_lang, sentence_buffer, rec_running, queues,
                   workers, spoken, units, calls, trail, recent_translations,
                   exchanges, notMain>>

\* Ctrl+C at the prompt: running = False, audio_recorder.stop()
MainQuit ==
    /\ cmd_pc = "idle"
    /\ running
    /\ workers # <<>>
    /\ Budget
    /\ running' = FALSE
    /\ rec_running' = FALSE
    /\ cmd_pc' = "exit"
    /\ Record("quit", "", "stopped")
    /\ UNCHANGED <<target_lang, translator_lang, synth_lang, source_lang,
                   sentence_buffer, queues, workers, spoken, units,
                   recent_translations, exchanges, notMain>>

\* audio_worker: audio_recorder.start(self.audio_queue, self.running) stores
\* the boolean it is given as its running flag, then opens the stream
MainAudioStart(g) ==
    /\ workers[g].audio = "start"
    /\ rec_running' = running
    /\ \/ workers' = [workers EXCEPT ![g].audio = "rec"]
       \/ workers' = [workers EXCEPT ![g].audio = "done"]
    /\ UNCHANGED <<mainCtl, source_lang, sentence_buffer, queues, spoken, units,
                   mainHist, recent_translations, exchanges, cmd_pc, notMain>>

\* transcription_worker: while self.running; audio_queue.get(timeout=0.5)
MainTsPoll(g) ==
    /\ workers[g].ts = "poll"
    /\ IF ~running
       THEN /\ workers' = [workers EXCEPT ![g].ts = "done"]
            /\ UNCHANGED audio_queue
       ELSE /\ audio_queue # <<>>
            /\ audio_queue' = Tail(audio_queue)
            /\ workers' = [workers EXCEPT
                  ![g].ts = "result",
                  ![g].ts_item = [id |-> Head(audio_queue), lang |-> "none",
                                  text |-> <<>>]]
    /\ UNCHANGED <<mainCtl, source_lang, sentence_buffer, rec_running,
                   transcription_queue, translation_queue, tts_queue, spoken,
                   units, mainHist, recent_translations, exchanges, cmd_pc,
                   notMain>>

\* transcribe, the detector fallback and the language tests
MainTsResult(g) ==
    /\ workers[g].ts = "result"
    /\ \E d \in DetectOutcomes, tx \in MainTexts :
          IF d \in Languages /\ d # target_lang
          THEN /\ workers' = [workers EXCEPT
                     ![g].ts = "put",
                     ![g].ts_item = [id |-> @.id, lang |-> d, text |-> tx]]
               /\ source_lang' = d
          ELSE /\ workers' = [workers EXCEPT ![g].ts = "poll"]
               /\ UNCHANGED source_lang
    /\ UNCHANGED <<mainCtl, sentence_buffer, rec_running, queues, spoken, units,
                   mainHist, recent_translations, exchanges, cmd_pc, notMain>>

\* self.transcription_queue.put((text, detected_lang)), a blocking put
MainTsPut(g) ==
    /\ workers[g].ts = "put"
    /\ Len(transcription_queue) < MainTranscriptionQueueMax
    /\ transcription_queue' = Append(transcription_queue, workers[g].ts_item)
    /\ workers' = [workers EXCEPT ![g].ts = "poll"]
    /\ UNCHANGED <<mainCtl, source_lang, sentence_buffer, rec_running,
                   audio_queue, translation_queue, tts_queue, spoken, units,
                   mainHist, recent_translations, exchanges, cmd_pc, notMain>>

\* translation_worker: while self.running; transcription_queue.get(timeout=0.2);
\* a segment in the target language is skipped, any other is appended
MainTrPoll(g) ==
    /\ workers[g].tr = "poll"
    /\ IF ~running
       THEN /\ workers' = [workers EXCEPT ![g].tr = "done"]
            /\ UNCHANGED <<transcription_queue, sentence_buffer>>
       ELSE IF transcription_queue = <<>>
       THEN /\ workers' = [workers EXCEPT ![g].tr = "check"]
            /\ UNCHANGED <<transcription_queue, sentence_buffer>>
       ELSE LET item == Head(transcription_queue) IN
            /\ transcription_queue' = Tail(transcription_queue)
            /\ IF item.lang = target_lang
               THEN UNCHANGED <<workers, sentence_buffer>>
               ELSE /\ workers' = [workers EXCEPT ![g].tr = "check"]
                    /\ sentence_buffer' =
                         [text |-> Strip(sentence_buffer.text \o <<Space>>
                                           \o item.text),
                          segs |-> Append(sentence_buffer.segs,
                                          [id |-> item.id, lang |-> item.lang])]
    /\ UNCHANGED <<mainCtl, source_lang, rec_running, audio_queue,
                   translation_queue, tts_queue, spoken, units, mainHist,
                   recent_translations, exchanges, cmd_pc, notMain>>

\* variant: a flush test without the forced flush, complete sentences only
MainTrCheck_NoForcedFlush(g) ==
    /\ workers[g].tr = "check"
    /\ IF sentence_buffer.text # <<>> /\ IsCompleteT2(sentence_buffer.text)
       THEN workers' = [workers EXCEPT ![g].tr = "flush"]
       ELSE workers' = [workers EXCEPT ![g].tr = "poll"]
    /\ UNCHANGED <<mainCtl, source_lang, sentence_buffer, rec_running, queues,
                   spoken, units, mainHist, recent_translations, exchanges,
                   cmd_pc, notMain>>

\* the flush test: buffer non-empty and (complete sentence, or delay elapsed
\* and at least 3 words)
MainTrCheck(g) ==
    /\ workers[g].tr = "check"
    /\ \E elapsed \in BOOLEAN :
          IF /\ sentence_buffer.text # <<>>
             /\ \/ IsCompleteT2(sentence_buffer.text)
                \/ elapsed /\ Len(Split(sentence_buffer.text)) >= FlushWords
          THEN workers' = [workers EXCEPT ![g].tr = "flush"]
          ELSE workers' = [workers EXCEPT ![g].tr = "poll"]
    /\ UNCHANGED <<mainCtl, source_lang, sentence_buffer, rec_running, queues,
                   spoken, units, mainHist, recent_translations, exchanges,
                   cmd_pc, notMain>>

\* the flush: unless the buffer is a recent duplicate or no source language is
\* known, translate_with_context -> base_translator.translate(text, source_lang)
\* (the text itself when the source is the translator's target, "" on failure),
\* then add_exchange with self.target_lang; the buffer is reset when nothing
\* was translated
MainTrFlush(g) ==
    /\ workers[g].tr = "flush"
    /\ \E out \in {"text", "empty"} :
          /\ source_lang = translator_lang => out = "text"
          /\ IF /\ sentence_buffer.text \notin recent_translations
                /\ source_lang # "none"
                /\ out = "text"
             THEN /\ workers' = [workers EXCEPT
                        ![g].tr = "put",
                        ![g].tr_item = [id |-> Head(sentence_buffer.segs).id,
                                        src |-> source_lang,
                                        tgt |-> translator_lang]]
                  /\ exchanges' = Append(exchanges,
                                     [segs |-> sentence_buffer.segs,
                                      text |-> sentence_buffer.text,
                                      src |-> source_lang,
                                      tgt |-> target_lang,
                                      produced |-> translator_lang])
                  /\ UNCHANGED sentence_buffer
             ELSE /\ workers' = [workers EXCEPT ![g].tr = "poll"]
                  /\ sentence_buffer' = EmptyBuffer
                  /\ UNCHANGED exchanges
    /\ UNCHANGED <<mainCtl, source_lang, rec_running, queues, spoken, units,
                   mainHist, recent_translations, cmd_pc, notMain>>

\* translation_queue.put(translation), a blocking put; the recent-translations
\* cache; self.sentence_buffer = ""
MainTrPut(g) ==
    /\ workers[g].tr = "put"
    /\ Len(translation_queue) < MainTranslationQueueMax
    /\ translation_queue' = Append(translation_queue, workers[g].tr_item)
    /\ LET added == recent_translations \cup {sentence_buffer.text} IN
          IF Cardinality(added) > RecentMax
          THEN \E x \in added : recent_translations' = added \ {x}
          ELSE recent_translations' = added
    /\ sentence_buffer' = EmptyBuffer
    /\ workers' = [workers EXCEPT ![g].tr = "poll"]
    /\ UNCHANGED <<mainCtl, source_lang, rec_running, audio_queue,
                   transcription_queue, tts_queue, spoken, units, mainHist,
                   exchanges, cmd_pc, notMain>>

\* tts_worker: translation_queue.get(timeout=0.5); self.synthesizer.speak
MainTtsPoll(g) ==
    /\ workers[g].tts = "poll"
    /\ IF ~running
       THEN /\ workers' = [workers EXCEPT ![g].tts = "done"]
            /\ UNCHANGED <<translation_queue, spoken>>
       ELSE /\ translation_queue # <<>>
            /\ translation_queue' = Tail(translation_queue)
            /\ spoken' = Append(spoken, [id |-> Head(translation_queue).id,
                                         tgt |-> Head(translation_queue).tgt,
                                         voice |-> synth_lang])
            /\ UNCHANGED workers
    /\ UNCHANGED <<mainCtl, source_lang, sentence_buffer, rec_running,
                   audio_queue, transcription_queue, tts_queue, units, mainHist,
                   recent_translations, exchanges, cmd_pc, notMain>>

MainLangThread == MainLangClear \/ MainLangUpdate
MainAudioWorker ==
    \/ \E g \in Gens : MainAudioStart(g)
    \/ \E g \in Gens : AudioCapture(g)
    \/ \E g \in Gens : AudioExit(g)
MainTranscriptionWorker ==
    \/ \E g \in Gens : MainTsPoll(g)
    \/ \E g \in Gens : MainTsResult(g)
    \/ \E g \in Gens : MainTsPut(g)
MainTranslationWorker ==
    \/ \E g \in Gens : MainTrPoll(g)
    \/ \E g \in Gens : MainTrCheck(g)
    \/ \E g \in Gens : MainTrFlush(g)
    \/ \E g \in Gens : MainTrPut(g)
MainTtsWorker == \E g \in Gens : MainTtsPoll(g)
MainLang == \E new_lang \in LangInputs : MainLangCommand(new_lang)

NextMain ==
    \/ MainStart
    \/ MainLang
    \/ MainLangThread
    \/ MainQuit
    \/ MainAudioWorker
    \/ MainTranscriptionWorker
    \/ MainTranslationWorker
    \/ MainTtsWorker

SpecMain == InitMain /\ [][NextMain]_vars

\* the command-line translator after start() and after the current target
\* language was asked for again at the prompt, twice: two events are left
InitListening ==
    /\ InitMainObject
    /\ workers = <<NewMainWorkers>>
    /\ calls = MaxEvents - 2
    /\ resp = Answer("change_language", target_lang, "language_not_changed")
    /\ trail = <<"change_language", "change_language">>

NextListening ==
    \/ MainLang
    \/ MainLangThread
    \/ MainQuit
    \/ MainAudioWorker
    \/ MainTranscriptionWorker
    \/ MainTranslationWorker
    \/ MainTtsWorker

SpecListening == InitListening /\ [][NextListening]_vars

\* the steps of one thread
MainAudioThread(g) ==
    g \in Gens /\ (MainAudioStart(g) \/ AudioExit(g))
MainTranscriptionThread(g) ==
    g \in Gens /\ (MainTsPoll(g) \/ MainTsResult(g) \/ MainTsPut(g))
MainTranslationThread(g) ==
    g \in Gens /\ (MainTrPoll(g) \/ MainTrCheck(g) \/ MainTrFlush(g) \/ MainTrPut(g))
MainTtsThread(g) == g \in Gens /\ MainTtsPoll(g)

\* the flush test made once processing_delay has passed since the last flush:
\* current_time - self.last_processed_time > self.processing_delay holds
MainTrCheckElapsed(g) ==
    /\ g \in Gens
    /\ MainTrCheck(g)
    /\ (Len(Split(sentence_buffer.text)) >= FlushWords) => workers'[g].tr = "flush"

\* every thread that can take a step eventually takes one, and the clock
\* advances: a worker that keeps making the flush test makes it after the
\* delay has passed; commands and speech are not obliged to arrive
FairSpecListening ==
    /\ SpecListening
    /\ WF_vars(MainLangThread)
    /\ \A g \in GenIds : /\ WF_vars(MainAudioThread(g))
                         /\ WF_vars(MainTranscriptionThread(g))
                         /\ WF_vars(MainTranslationThread(g))
                         /\ WF_vars(MainTtsThread(g))
                         /\ SF_vars(MainTrCheckElapsed(g))

(***************************************************************************)
(* Conversation context (src/mcp/mcp.py and src/mcp/mcp2.py): the history  *)
(* of exchanges kept by a ConversationContext object.  An exchange is      *)
(* reduced to its language pair.                                           *)
(***************************************************************************)
MaxOffered == 5        \* exchanges handed to one context object per run
MaxFileLen == 3        \* entries of a persisted history file

CtxImpls == {"mcp", "mcp2"}
MaxHistoryInputs == 0..2
Exchanges == {[src |-> s, tgt |-> t] : s, t \in Languages} \
                 {[src |-> l, tgt |-> l] : l \in Languages}
HistoryFiles == UNION {[1..n -> Exchanges] : n \in 0..MaxFileLen}

\* collections.deque(maxlen=m).append(x): a full deque drops its oldest item
DequeAppend(h, x, m) ==
    IF m = 0 THEN <<>>
    ELSE IF Len(h) >= m THEN Append(Tail(h), x)
    ELSE Append(h, x)

\* appending the items of f one by one, as deque(f, maxlen=m) and the loop
\* of load_from_file do
RECURSIVE DequeExtend(_, _, _)
DequeExtend(h, f, m) ==
    IF f = <<>> THEN h
    ELSE DequeExtend(DequeAppend(h, Head(f), m), Tail(f), m)

\* ConversationContext(max_history=...): self.history = deque(maxlen=max_history)
InitContext ==
    /\ InitPipeline
    /\ ctx_impl \in CtxImpls
    /\ max_history \in MaxHistoryInputs
    /\ history = <<>>
    /\ offered = 0
    /\ DelayIdle
    /\ TextIdle
    /\ OtherIdle

\* variant: the history kept in a plain list
AddExchange_List ==
    /\ offered < MaxOffered
    /\ \E ex \in Exchanges : history' = Append(history, ex)
    /\ offered' = offered + 1
    /\ UNCHANGED <<ctx_impl, max_history, pipeline, notCtx>>

\* add_exchange (both classes): self.history.append(exchange)
AddExchange ==
    /\ offered < MaxOffered
    /\ \E ex \in Exchanges : history' = DequeAppend(history, ex, max_history)
    /\ offered' = offered + 1
    /\ UNCHANGED <<ctx_impl, max_history, pipeline, notCtx>>

\* mcp.py load_from_file: every entry of the file is appended to self.history;
\* an entry that cannot be read ends the loop with the earlier ones kept, which
\* is the load of a shorter file
LoadFromFile ==
    /\ ctx_impl = "mcp"
    /\ \E f \in HistoryFiles :
          /\ offered + Len(f) <= MaxOffered
          /\ history' = DequeExtend(history, f, max_history)
          /\ offered' = offered + Len(f)
    /\ UNCHANGED <<ctx_impl, max_history, pipeline, notCtx>>

\* mcp2.py load_history: self.history = deque(data['history'], maxlen=self.max_history)
LoadHistory ==
    /\ ctx_impl = "mcp2"
    /\ \E f \in HistoryFiles :
          /\ offered + Len(f) <= MaxOffered
          /\ history' = DequeExtend(<<>>, f, max_history)
          /\ offered' = offered + Len(f)
    /\ UNCHANGED <<ctx_impl, max_history, pipeline, notCtx>>

\* mcp.py clear_history: self.history.clear()
ClearHistory ==
    /\ ctx_impl = "mcp"
    /\ history # <<>>
    /\ history' = <<>>
    /\ UNCHANGED <<ctx_impl, max_history, offered, pipeline, notCtx>>

NextContext ==
    \/ AddExchange
    \/ LoadFromFile
    \/ LoadHistory
    \/ ClearHistory

SpecContext == InitContext /\ [][NextContext]_vars

(***************************************************************************)
(* Adaptive timing of OptimizedTrilingualTranslator (src/app2.py).  Times  *)
(* are fixed-point numbers of hundredths of a second, the precision that   *)
(* get_status reports; the moving average is rounded down to a whole       *)
(* hundredth.  _update_adaptive_delay runs on the transcription worker     *)
(* thread, get_status on a request thread.                                 *)
(***************************************************************************)
AlphaPercent == 10     \* alpha = 0.1
\* processing_time: from no time at all to the 5 s of future.result(timeout=5.0)
ProcessingTimes == {0, 5, 100, 500}

Clamp(d) ==
    IF d < MinDelay THEN MinDelay ELSE IF d > MaxDelay THEN MaxDelay ELSE d

InitDelay ==
    /\ InitPipeline
    /\ CtxIdle
    /\ DelayIdle
    /\ TextIdle
    /\ OtherIdle

\* self.adaptive_delay = (1 - alpha) * self.adaptive_delay + alpha * processing_time
UpdateAverage ==
    /\ delay_pc = "idle"
    /\ \E processing_time \in ProcessingTimes :
          adaptive_delay' = ((100 - AlphaPercent) * adaptive_delay
                               + AlphaPercent * processing_time) \div 100
    /\ delay_pc' = "clamp"
    /\ UNCHANGED <<delay_seen, pipeline, notDelay>>

\* self.adaptive_delay = max(min_processing_delay, min(max_processing_delay, ...))
UpdateClamp ==
    /\ delay_pc = "clamp"
    /\ adaptive_delay' = Clamp(adaptive_delay)
    /\ delay_pc' = "idle"
    /\ UNCHANGED <<delay_seen, pipeline, notDelay>>

\* get_status: 'adaptive_delay': round(self.adaptive_delay, 2): the read of the field
ReadDelay ==
    /\ delay_seen' = <<adaptive_delay>>
    /\ UNCHANGED <<adaptive_delay, delay_pc, pipeline, notDelay>>

NextDelay ==
    \/ UpdateAverage
    \/ UpdateClamp
    \/ ReadDelay

SpecDelay == InitDelay /\ [][NextDelay]_vars

(***************************************************************************)
(* is_complete_sentence applied to transcript buffers.  A buffer is        *)
(* assembled from pieces (a token, or a phrase of nine words) and handed   *)
(* to the three implementations.                                           *)
(***************************************************************************)
MaxPieces == 3         \* pieces per buffer

NineWords == <<"w", Space, "w", Space, "w", Space, "w", Space, "w", Space,
               "w", Space, "w", Space, "w", Space, "w">>
ParceQue == <<Space, "parce", Space, "que">>
Pieces == {<<c>> : c \in Tokens} \cup {NineWords, ParceQue}
\* the source_lang argument of LanguageDetector.is_complete_sentence
SentenceLangs == {"none", "en", "es", "fr"}

InitSentence ==
    /\ InitPipeline
    /\ CtxIdle
    /\ DelayIdle
    /\ TextIdle
    /\ OtherIdle

\* the caller extends the buffer
TypePiece ==
    /\ typed < MaxPieces
    /\ \E piece \in Pieces : buffer' = buffer \o piece
    /\ typed' = typed + 1
    /\ verdict' = <<>>
    /\ UNCHANGED <<pipeline, notText>>

\* the is_complete_sentence functions are called on the buffer, the
\* context-aware one with some topics in its context manager
Judge ==
    /\ verdict = <<>>
    /\ \E lang \in SentenceLangs, tops \in SUBSET TopicWords :
          verdict' = << [text |-> buffer, lang |-> lang, tops |-> tops,
                         basic |-> IsCompleteBasic(buffer),
                         detector |-> IsCompleteDetector(buffer, lang),
                         t2 |-> IsCompleteT2(buffer),
                         ctx |-> IsCompleteContext(buffer, tops)] >>
    /\ UNCHANGED <<buffer, typed, pipeline, notText>>

NextSentence ==
    \/ TypePiece
    \/ Judge

SpecSentence == InitSentence /\ [][NextSentence]_vars

(***************************************************************************)
(* Speech synthesis of src/app2.py, with the call of _synthesize_speech    *)
(* split where its with-block is entered and left: the tts worker submits  *)
(* one pool task per utterance and does not wait; each task takes          *)
(* self.tts_lock, calls synthesizer.speak (which plays the audio and waits *)
(* for the playback to end) and releases the lock.  The initial state is a *)
(* running pipeline with three utterances waiting for the tts worker and   *)
(* two further events of the budget left.                                  *)
(***************************************************************************)
Utterance(n) == [id |-> 0 - n, src |-> "fr", tgt |-> DefaultTarget]
WaitingUtterances == <<Utterance(1), Utterance(2), Utterance(3)>>

InitSpeech ==
    /\ running = TRUE
    /\ shutdown_event = FALSE
    /\ target_lang = DefaultTarget
    /\ source_lang = "fr"
    /\ sentence_buffer = <<>>
    /\ translators = Languages
    /\ synthesizers = Languages
    /\ executor_down = FALSE
    /\ paused_event = TRUE
    /\ rec_running = TRUE
    /\ translator_running = FALSE
    /\ audio_queue = <<>>
    /\ transcription_queue = <<>>
    /\ translation_queue = WaitingUtterances
    /\ tts_queue = WaitingUtterances
    /\ stats = [transcriptions |-> Len(WaitingUtterances),
                translations |-> Len(WaitingUtterances),
                errors |-> 0]
    /\ workers = <<RunningWorkers>>
    /\ starters = NoStarters
    /\ start_ret = "true"
    /\ stop_pc = "idle"
    /\ stale = [transcribe |-> 0, translate |-> 0]
    /\ tts_tasks = {}
    /\ spoken = <<>>
    /\ units = 0
    /\ calls = MaxEvents - 2
    /\ trail = <<"start", "status">>
    /\ resp = Answer("status", Snapshot, "ok")
    /\ after_stop = FALSE
    /\ clean_stop = FALSE
    /\ translator_lang = DefaultTarget
    /\ synth_lang = DefaultTarget
    /\ recent_translations = {}
    /\ exchanges = <<>>
    /\ cmd_pc = "idle"
    /\ LibIdle

\* the playback of utterance t by the synthesizer of the current target
Playback(t) == [id |-> t.id, tgt |-> t.tgt, voice |-> target_lang]

\* variant: the pool task calls speak without taking the lock
SpeakEnter_NoLock ==
    /\ StaleTotal < PoolWorkers
    /\ \E t \in tts_tasks :
          /\ tts_lock' = <<t>>
          /\ speaking' = IF HasSynthesizer
                         THEN speaking \cup {Playback(t)}
                         ELSE speaking
    /\ UNCHANGED <<pipeline, notSpeech>>

\* a pool thread runs _synthesize_speech(text): it acquires self.tts_lock
\* and calls self.synthesizer.speak(text); the lookup of the synthesizer
\* raises inside the try when the synthesizers were cleared
SpeakEnter ==
    /\ StaleTotal < PoolWorkers
    /\ tts_lock = <<>>
    /\ \E t \in tts_tasks :
          /\ tts_lock' = <<t>>
          /\ speaking' = IF HasSynthesizer
                         THEN speaking \cup {Playback(t)}
                         ELSE speaking
    /\ UNCHANGED <<pipeline, notSpeech>>

\* speak returned after sd.wait() (or the exception was caught); the with
\* block releases the lock and the task ends
SpeakExit ==
    /\ tts_lock # <<>>
    /\ LET t == tts_lock[1]
           mine == {u \in speaking : u.id = t.id}
       IN /\ tts_tasks' = tts_tasks \ {t}
          /\ spoken' = IF mine = {} THEN spoken
                       ELSE Append(spoken, CHOOSE u \in mine : TRUE)
          /\ speaking' = speaking \ mine
    /\ tts_lock' = <<>>
    /\ UNCHANGED <<ctlState, rec_running, translator_running, queues, stats,
                   workers, starters, start_ret, stop_pc, stale, units, ctlHist,
                   source_lang, appOnly, mainOnly, notSpeech>>

NextSpeech ==
    \/ StartCall
    \/ StopCall
    \/ PauseCall
    \/ ResumeCall
    \/ ChangeLanguage
    \/ GetStatus
    \/ StartThread
    \/ StopThread
    \/ Workers
    \/ SpeakEnter
    \/ SpeakExit
    \/ StaleReturn

SpecSpeech == InitSpeech /\ [][NextSpeech]_vars

(***************************************************************************)
(* Persistence of a ConversationContext (src/mcp/mcp.py save_to_file and   *)
(* load_from_file, src/mcp/mcp2.py save_history and load_history).  An     *)
(* exchange keeps its five persisted fields.  A datetime is a number of    *)
(* seconds and of microseconds; its ISO text has a fractional part only    *)
(* when the microseconds are not zero.  A dict is a function on its keys.  *)
(***************************************************************************)
PersistMaxHistory == {2, DefaultMaxHistory}
PersistTexts == {"hola", "bonjour"}
Microseconds == {0, 5}

\* datetime.isoformat() and datetime.fromisoformat()
IsoFormat_Seconds(ts) == <<ts.sec>>
IsoFormat(ts) == IF ts.usec = 0 THEN <<ts.sec>> ELSE <<ts.sec, ts.usec>>
FromIsoFormat(s) == [sec |-> s[1], usec |-> IF Len(s) = 1 THEN 0 ELSE s[2]]

\* list(a_set): the elements in some order; set(a_list)
RECURSIVE ListOf(_)
ListOf(S) ==
    IF S = {} THEN <<>>
    ELSE LET x == CHOOSE y \in S : TRUE IN <<x>> \o ListOf(S \ {x})
SetOf(l) == {l[i] : i \in 1..Len(l)}

\* d[k] = d.get(k, 0) + n
DictAdd(d, k, n) ==
    [x \in DOMAIN d \cup {k} |->
        IF x = k THEN (IF k \in DOMAIN d THEN d[k] ELSE 0) + n ELSE d[x]]

\* what a context holds of the claim's three parts
Held == [history |-> history, topics |-> topics, language_pairs |-> language_pairs]

InitPersist ==
    /\ InitPipeline
    /\ ctx_impl \in CtxImpls
    /\ max_history \in PersistMaxHistory
    /\ history = <<>>
    /\ offered = 0
    /\ DelayIdle
    /\ TextIdle
    /\ OtherIdle

\* add_exchange: the exchange is stamped with datetime.now() (its ISO text in
\* mcp2.py), appended to the bounded history and counted for its language
\* pair (twice in mcp2.py, lines 58-59); topic extraction may add words of
\* the original text to the topics
RecordExchange ==
    /\ offered < MaxFileLen
    /\ \E o \in PersistTexts, u \in Microseconds, found \in SUBSET PersistTexts :
          LET now == [sec |-> offered + 1, usec |-> u]
              src == IF o = "hola" THEN "es" ELSE "fr"
              ex == [timestamp |-> IF ctx_impl = "mcp" THEN now ELSE IsoFormat(now),
                     original |-> o, source_lang |-> src,
                     translated |-> "hello", target_lang |-> DefaultTarget]
          IN /\ found \subseteq {o}
             /\ history' = DequeAppend(history, ex, max_history)
             /\ language_pairs' =
                   DictAdd(language_pairs, <<src, DefaultTarget>>,
                           IF ctx_impl = "mcp" THEN 1 ELSE 2)
             /\ topics' = topics \cup found
    /\ offered' = offered + 1
    /\ UNCHANGED <<ctx_impl, max_history, saved_file, new_context, pipeline,
                   notPersist>>

\* mcp.py save_to_file: the file is opened with 'w' and written from the
\* current history (timestamps as ISO text), topics and language pairs
SaveToFile ==
    /\ ctx_impl = "mcp"
    /\ saved_file' =
          << [history |-> [i \in 1..Len(history) |->
                              [history[i] EXCEPT !.timestamp = IsoFormat(@)]],
              topics |-> ListOf(topics),
              language_pairs |-> language_pairs,
              from |-> Held] >>
    /\ UNCHANGED <<ctxState, topics, language_pairs, new_context, pipeline,
                   notPersist>>

\* mcp2.py save_history: json.dump of list(self.history), list(self.topics)
\* and self.language_pairs into the file opened with 'w'
SaveHistory ==
    /\ ctx_impl = "mcp2"
    /\ saved_file' =
          << [history |-> history,
              topics |-> ListOf(topics),
              language_pairs |-> language_pairs,
              from |-> Held] >>
    /\ UNCHANGED <<ctxState, topics, language_pairs, new_context, pipeline,
                   notPersist>>

\* new_context = ConversationContext(max_history=m); mcp.py load_from_file
\* appends every entry of the file, its timestamp parsed, to the history
NewLoadFromFile ==
    /\ ctx_impl = "mcp"
    /\ saved_file # <<>>
    /\ \E m \in PersistMaxHistory :
          LET f == saved_file[1]
              entries == [i \in 1..Len(f.history) |->
                            [f.history[i] EXCEPT !.timestamp = FromIsoFormat(@)]]
          IN new_context' =
                << [max_history |-> m,
                    history |-> DequeExtend(<<>>, entries, m),
                    topics |-> SetOf(f.topics),
                    language_pairs |-> f.language_pairs,
                    from |-> f.from] >>
    /\ UNCHANGED <<ctxState, topics, language_pairs, saved_file, pipeline,
                   notPersist>>

\* new_context = ConversationContext(max_history=m); mcp2.py load_history:
\* self.history = deque(data['history'], maxlen=self.max_history)
NewLoadHistory ==
    /\ ctx_impl = "mcp2"
    /\ saved_file # <<>>
    /\ \E m \in PersistMaxHistory :
          LET f == saved_file[1]
          IN new_context' =
                << [max_history |-> m,
                    history |-> DequeExtend(<<>>, f.history, m),
                    topics |-> SetOf(f.topics),
                    language_pairs |-> f.language_pairs,
                    from |-> f.from] >>
    /\ UNCHANGED <<ctxState, topics, language_pairs, saved_file, pipeline,
                   notPersist>>

NextPersist ==
    \/ RecordExchange
    \/ SaveToFile
    \/ SaveHistory
    \/ NewLoadFromFile
    \/ NewLoadHistory

SpecPersist == InitPersist /\ [][NextPersist]_vars

(***************************************************************************)
(* ContextAwareTranslator.translate of src/mcp/mcp2.py, called again and   *)
(* again on one object.  The context manager is a ConversationContext of   *)
(* mcp2.py whose topics were loaded at construction; the texts stay far    *)
(* below the fifty buffered words at which add_exchange extracts topics.   *)
(* The age of a recent_translations entry is not modelled: the test        *)
(* current_time - ts < 10 may go either way.                               *)
(***************************************************************************)
MaxPartialWords == 4   \* words accumulated in partial_sentence
MaxTranslations == 2   \* translations recorded per run

CallTexts == {<<>>, <<"w">>, <<"w", ".">>}
CallLangs == {"fr", DefaultTarget}

InitTranslate ==
    /\ InitPipeline
    /\ ctx_impl = "mcp2"
    /\ max_history = DefaultMaxHistory
    /\ history = <<>>
    /\ offered = 0
    /\ DelayIdle
    /\ TextIdle
    /\ SpeechIdle
    /\ topics \in SUBSET TopicWords
    /\ language_pairs = <<>>
    /\ saved_file = <<>>
    /\ new_context = <<>>
    /\ CatIdle
    /\ RaceIdle

\* translate(text, source_lang) to its return
Translate ==
    /\ \E text \in CallTexts, lang \in CallLangs :
           IF text = <<>> \/ lang = target_lang
           THEN /\ last_call' = <<[text |-> text, source_lang |-> lang, out |-> "none"]>>
                /\ UNCHANGED <<partial_sentence, cat_recent_translations, history,
                               language_pairs, offered>>
           ELSE LET partial == Strip(Strip(partial_sentence \o <<Space>> \o Strip(text)))
                    text_key == [source_lang |-> lang, text |-> LowerText(partial)]
                    pending == /\ partial_sentence' = partial
                               /\ last_call' = <<[text |-> text, source_lang |-> lang,
                                                  out |-> "none"]>>
                               /\ UNCHANGED <<cat_recent_translations, history,
                                              language_pairs, offered>>
                IN /\ Len(Split(partial)) <= MaxPartialWords
                   /\ \E within, translated \in BOOLEAN :
                         IF text_key \in cat_recent_translations /\ within
                         THEN pending
                         ELSE IF ~IsCompleteContext(partial, topics)
                         THEN pending
                         ELSE IF ~translated
                         THEN pending
                         ELSE /\ offered < MaxTranslations
                              /\ cat_recent_translations' =
                                    cat_recent_translations \cup {text_key}
                              /\ history' = DequeAppend(history,
                                               [src |-> lang, tgt |-> target_lang],
                                               max_history)
                              /\ language_pairs' =
                                    DictAdd(language_pairs, <<lang, target_lang>>, 2)
                              /\ offered' = offered + 1
                              /\ partial_sentence' = <<>>
                              /\ last_call' = <<[text |-> text, source_lang |-> lang,
                                                 out |-> "text"]>>
    /\ UNCHANGED <<pipeline, delayState, textState, speechState, ctx_impl,
                   max_history, topics, saved_file, new_context, raceState>>

SpecTranslate == InitTranslate /\ [][Translate]_vars

\* translate keeps being called
FairSpecTranslate == SpecTranslate /\ WF_vars(Translate)

(***************************************************************************)
(* The pipeline of src/app2.py with a transcriber that has stopped         *)
(* returning: as many calls of _process_transcription as the pool has     *)
(* threads overran their 5 s wait, were counted as errors and still hold   *)
(* their pool threads (future.result(timeout) does not cancel); one        *)
(* translation waits for the tts worker.  Two further events of the budget *)
(* are left.                                                               *)
(***************************************************************************)
OverrunCalls == PoolWorkers

InitStalled ==
    /\ running = TRUE
    /\ shutdown_event = FALSE
    /\ target_lang = DefaultTarget
    /\ source_lang = "fr"
    /\ sentence_buffer = <<>>
    /\ translators = Languages
    /\ synthesizers = Languages
    /\ executor_down = FALSE
    /\ paused_event = TRUE
    /\ rec_running = TRUE
    /\ translator_running = FALSE
    /\ audio_queue = <<>>
    /\ transcription_queue = <<>>
    /\ translation_queue = <<OldResult>>
    /\ tts_queue = <<OldResult>>
    /\ stats = [transcriptions |-> 1, translations |-> 1, errors |-> OverrunCalls]
    /\ workers = <<RunningWorkers>>
    /\ starters = NoStarters
    /\ start_ret = "true"
    /\ stop_pc = "idle"
    /\ stale = [transcribe |-> OverrunCalls, translate |-> 0]
    /\ tts_tasks = {}
    /\ spoken = <<>>
    /\ units = 0
    /\ calls = MaxEvents - 2
    /\ trail = <<"start", "status">>
    /\ resp = Answer("status", Snapshot, "ok")
    /\ after_stop = FALSE
    /\ clean_stop = FALSE
    /\ translator_lang = DefaultTarget
    /\ synth_lang = DefaultTarget
    /\ recent_translations = {}
    /\ exchanges = <<>>
    /\ cmd_pc = "idle"
    /\ LibIdle

SpecStalled == InitStalled /\ [][Next]_vars

\* every thread that can take a step eventually takes one, and the pool runs
\* a task when it has a free thread; the overrun calls need not return
FairSpecStalled ==
    /\ SpecStalled
    /\ WF_vars(StartThread)
    /\ WF_vars(StopThread)
    /\ WF_vars(Speak)
    /\ \A g \in GenIds : /\ WF_vars(TranscriptionThread(g))
                         /\ WF_vars(TranslationThread(g))
                         /\ WF_vars(TtsThread(g))

(***************************************************************************)
(* Loading a persisted file into the context that is in use, and clearing  *)
(* it (src/mcp/mcp.py load_from_file and clear_history, src/mcp/mcp2.py    *)
(* load_history; src/main.py loads the history file into the context it    *)
(* has just created).  The entries a context has been handed, by           *)
(* add_exchange or from a file, are counted in `offered`.                  *)
(***************************************************************************)

\* the history entries of a file as load_from_file builds them
ParsedEntries(f) ==
    [i \in 1..Len(f.history) |->
        [f.history[i] EXCEPT !.timestamp = FromIsoFormat(@)]]

\* mcp.py load_from_file on a live context: every entry of the file is
\* appended (self.history.append, lines 322-331); topics and language pairs
\* are replaced by the file's (lines 334-335)
ReloadFromFile ==
    /\ ctx_impl = "mcp"
    /\ saved_file # <<>>
    /\ LET f == saved_file[1]
       IN /\ offered + Len(f.history) <= MaxOffered
          /\ history' = DequeExtend(history, ParsedEntries(f), max_history)
          /\ topics' = SetOf(f.topics)
          /\ language_pairs' = f.language_pairs
          /\ offered' = offered + Len(f.history)
    /\ UNCHANGED <<ctx_impl, max_history, saved_file, new_context, pipeline,
                   notPersist>>

\* mcp2.py load_history on a live context: history, topics and language
\* pairs are all replaced by the file's (lines 201-204)
ReloadHistory ==
    /\ ctx_impl = "mcp2"
    /\ saved_file # <<>>
    /\ LET f == saved_file[1]
       IN /\ offered + Len(f.history) <= MaxOffered
          /\ history' = DequeExtend(<<>>, f.history, max_history)
          /\ topics' = SetOf(f.topics)
          /\ language_pairs' = f.language_pairs
          /\ offered' = offered + Len(f.history)
    /\ UNCHANGED <<ctx_impl, max_history, saved_file, new_context, pipeline,
                   notPersist>>

\* mcp.py clear_history: history, topics and language pairs are cleared
ClearAll ==
    /\ ctx_impl = "mcp"
    /\ history # <<>>
    /\ history' = <<>>
    /\ topics' = {}
    /\ language_pairs' = <<>>
    /\ UNCHANGED <<ctx_impl, max_history, offered, saved_file, new_context,
                   pipeline, notPersist>>

NextReload ==
    \/ RecordExchange
    \/ SaveToFile
    \/ SaveHistory
    \/ NewLoadFromFile
    \/ NewLoadHistory
    \/ ReloadFromFile
    \/ ReloadHistory
    \/ ClearAll

SpecReload == InitPersist /\ [][NextReload]_vars

(***************************************************************************)
(* The counters of src/app2.py.  Every `self.stats[c] += 1` of a stage     *)
(* thread reads the counter, adds one and writes it back; no lock is held  *)
(* (tts_lock guards only synthesizer.speak, buffer_lock only the sentence  *)
(* buffer, translator_lock only the Flask routes), so another stage thread *)
(* may run between the read and the write.  The transcription thread       *)
(* counts transcriptions and errors, the translation thread translations   *)
(* and errors, the tts thread errors.                                      *)
(***************************************************************************)
CountersOf(t) ==
    CASE t = "transcription" -> {"transcriptions", "errors"}
      [] t = "translation" -> {"translations", "errors"}
      [] t = "tts" -> {"errors"}

CountedTotal == counted["transcriptions"] + counted["translations"] + counted["errors"]

InitCounters ==
    /\ running = TRUE
    /\ shutdown_event = FALSE
    /\ target_lang = DefaultTarget
    /\ source_lang = "none"
    /\ sentence_buffer = <<>>
    /\ translators = Languages
    /\ synthesizers = Languages
    /\ executor_down = FALSE
    /\ paused_event = TRUE
    /\ rec_running = TRUE
    /\ translator_running = FALSE
    /\ audio_queue = <<>>
    /\ transcription_queue = <<>>
    /\ translation_queue = <<>>
    /\ tts_queue = <<>>
    /\ stats = [transcriptions |-> 0, translations |-> 0, errors |-> 0]
    /\ workers = <<RunningWorkers>>
    /\ starters = NoStarters
    /\ start_ret = "true"
    /\ stop_pc = "idle"
    /\ stale = [transcribe |-> 0, translate |-> 0]
    /\ tts_tasks = {}
    /\ spoken = <<>>
    /\ units = 0
    /\ calls = 1
    /\ trail = <<"start">>
    /\ resp = Answer("start", "", "started")
    /\ after_stop = FALSE
    /\ clean_stop = FALSE
    /\ translator_lang = DefaultTarget
    /\ synth_lang = DefaultTarget
    /\ recent_translations = {}
    /\ exchanges = <<>>
    /\ cmd_pc = "idle"
    /\ LibIdle

\* the read of self.stats[c] that begins a `self.stats[c] += 1`
StatsLoad(t) ==
    /\ in_update[t] = <<>>
    /\ CountedTotal < MaxEvents
    /\ \E c \in CountersOf(t) :
          /\ in_update' = [in_update EXCEPT ![t] = <<[counter |-> c, value |-> stats[c]]>>]
          /\ counted' = [counted EXCEPT ![c] = @ + 1]
    /\ UNCHANGED <<stats, ctlState, queues, poolState, ctlHist, mainOnly,
                   source_lang, sentence_buffer, rec_running, translator_running,
                   workers, starters, start_ret, stop_pc, units, oldLib,
                   speechState, persistState, catState>>

\* the write that ends it: the value read, plus one
StatsStore(t) ==
    /\ in_update[t] # <<>>
    /\ stats' = [stats EXCEPT ![in_update[t][1].counter] = in_update[t][1].value + 1]
    /\ in_update' = [in_update EXCEPT ![t] = <<>>]
    /\ UNCHANGED <<counted, ctlState, queues, poolState, ctlHist, mainOnly,
                   source_lang, sentence_buffer, rec_running, translator_running,
                   workers, starters, start_ret, stop_pc, units, oldLib,
                   speechState, persistState, catState>>

NextCounters ==
    \/ \E t \in Stages : StatsLoad(t)
    \/ \E t \in Stages : StatsStore(t)

SpecCounters == InitCounters /\ [][NextCounters]_vars

(***************************************************************************)
(* Properties of the control surface and the pipeline (Spec).              *)
(***************************************************************************)
AllQueuesEmpty == /\ audio_queue = <<>>
                  /\ transcription_queue = <<>>
                  /\ translation_queue = <<>>
                  /\ tts_queue = <<>>

\* the state stop() establishes: Stopped, resources released
Released == /\ ~running
            /\ shutdown_event
            /\ translators = {}
            /\ synthesizers = {}
            /\ executor_down

\* a step that is the answer to a new control request
Request(op) == calls' # calls /\ resp'.op = op

\* a step taken by the thread that executes stop()
StopStep == stop_pc' # stop_pc

LastTwo(a, b) == /\ Len(trail) >= 2
                 /\ trail[Len(trail) - 1] = a
                 /\ trail[Len(trail)] = b

\* C1: a start request made while the controller is running (Running or
\* Paused) answers already_running, launches nothing and leaves the run
\* state and the pause flag as they were.
C1_StartWhileRunningIsNoOp ==
    [][ (Request("start") /\ running)
          => /\ resp'.token = "already_running"
             /\ UNCHANGED <<running, paused_event, workers, starters>> ]_vars

\* C2: from the return of a stop() that was requested with no start in
\* progress until the next start request, the channels fed by the stage
\* workers (transcription, translation, tts) are empty.
C2_ChannelsEmptyAfterStop ==
    (after_stop /\ clean_stop)
        => /\ transcription_queue = <<>>
           /\ translation_queue = <<>>
           /\ tts_queue = <<>>

C4_StopNotHeldByTranslatorCall ==
    ~(stop_pc = "await" /\ clean_stop /\ stale["translate"] > 0)

\* C6: when the latest request is a start, start() has returned success and
\* the controller is running, the translator and the synthesizer of the
\* target language and the worker pool are available.
C6_StartedPipelineHasHandles ==
    (resp.op = "start" /\ start_ret = "true" /\ running)
        => (HasTranslator /\ HasSynthesizer /\ ~executor_down)

\* C7: pause and resume requests made while the controller is not running
\* answer not_running and change neither the run state, the pause flag, the
\* channels, the counters nor the workers.
C7_PauseResumeWhenStopped ==
    [][ ((Request("pause") \/ Request("resume")) /\ ~running)
          => /\ resp'.token = "not_running"
             /\ UNCHANGED <<ctlState, queues, stats, workers, starters,
                            poolState, rec_running>> ]_vars

\* C7 witness: after a stop, a pause and then a resume were both refused
C7_Witness ==
    /\ LastTwo("pause", "resume")
    /\ resp.token = "not_running"
    /\ after_stop
    /\ ~running
    /\ paused_event

\* C8: a pause request on a controller that is already paused answers paused
\* and changes nothing (state, channels, counters); a resume request on a
\* running controller sets the flag back, however many pauses preceded it.
C8_PauseIdempotent ==
    [][ /\ (Request("pause") /\ running /\ ~paused_event)
            => /\ resp'.token = "paused"
               /\ UNCHANGED <<ctlState, queues, stats, poolState, rec_running>>
        /\ (Request("resume") /\ running)
            => /\ resp'.token = "resumed"
               /\ paused_event'
               /\ running'
               /\ UNCHANGED <<queues, stats>> ]_vars

\* C8 witness: running, two pauses in a row, then one resume: running again
\* with the pause flag cleared
C8_Witness ==
    /\ Len(trail) >= 3
    /\ trail[Len(trail) - 2] = "pause"
    /\ trail[Len(trail) - 1] = "pause"
    /\ trail[Len(trail)] = "resume"
    /\ resp.token = "resumed"
    /\ running
    /\ paused_event

\* C9 (as claimed): while the pause flag is cleared no transcription worker
\* has removed an audio unit or emitted a segment since the pause.
C9_NoIntakeWhilePaused ==
    ~paused_event => \A g \in Gens : workers[g].taken = 0 /\ workers[g].emitted = 0

\* C9 (amended): while the pause flag is cleared every transcription worker
\* has removed at most one audio unit and emitted at most one segment since
\* the pause.
C9_AtMostOneIntakeWhilePaused ==
    ~paused_event => \A g \in Gens : workers[g].taken <= 1 /\ workers[g].emitted <= 1

\* C9 witness: a worker that had passed the pause test took a unit and
\* emitted its segment while paused
C9_Witness ==
    /\ ~paused_event
    /\ \E g \in Gens : workers[g].taken = 1 /\ workers[g].emitted = 1

\* C10: a change-language request whose language is unsupported or equal to
\* the current target answers with a failure token and changes neither the
\* target language, the translator and synthesizer tables, the channels, the
\* workers nor the counters.
C10_RejectedLanguageChangesNothing ==
    [][ (Request("change_language")
           /\ (resp'.arg \notin Languages \/ resp'.arg = target_lang))
          => /\ resp'.token \in {"invalid_language", "language_not_changed"}
             /\ UNCHANGED <<ctlState, queues, stats, workers, starters,
                            poolState, rec_running>> ]_vars

\* C10 witness: a paused controller refused its own target language
C10_Witness ==
    /\ resp.op = "change_language"
    /\ resp.arg = target_lang
    /\ resp.token = "language_not_changed"
    /\ running
    /\ ~paused_event

(***************************************************************************)
(* Properties of the TrilingualTranslator pipeline (SpecApp, FairSpecApp). *)
(***************************************************************************)
\* every transcription and translation thread has left its loop
AppStageWorkersDone ==
    \A g \in Gens : workers[g].ts = "done" /\ workers[g].tr = "done"

\* C5: once stop() has signalled shutdown, and for as long as no later
\* request arrives, every stage worker eventually leaves its loop and
\* terminates (threads are scheduled fairly, collaborator calls return).
C5_WorkersTerminateAfterStop ==
    (resp.op = "stop") ~> (AppStageWorkersDone \/ resp.op # "stop")

\* C11: every item is spoken by the synthesizer of the language its
\* translation was produced for, under every interleaving of a language
\* change with the translation and synthesis stages.
C11_ItemSpokenInItsLanguage ==
    \A i \in 1..Len(spoken) : spoken[i].tgt = spoken[i].voice

C13_StatusMutatesNothing ==
    [][ Request("status")
          => /\ resp'.token = "ok"
             /\ resp'.arg = Snapshot
             /\ UNCHANGED <<ctlState, source_lang, queues, stats, workers,
                            starters, poolState, rec_running, sentence_buffer>>
      ]_vars

\* C13 witness: a status taken while paused with captured audio waiting
C13_Witness ==
    /\ resp.op = "status"
    /\ resp.token = "ok"
    /\ resp.arg.running
    /\ resp.arg.paused
    /\ resp.arg.queue_sizes.audio = 1
    /\ audio_queue # <<>>
    /\ ~paused_event

\* threads executing translator.start() on behalf of a start request
StartsInFlight ==
    starters["check"] + starters["set"] + starters["clear"] + starters["launch"]
StopsInFlight == IF stop_pc \in {"idle", "ret"} THEN 0 ELSE 1

\* C14: at most one state transition of the controller is in flight at any
\* time: a start() and a stop(), or two start(), never execute concurrently.
C14_OneTransitionInFlight == StartsInFlight + StopsInFlight <= 1

\* the state get_status reports: its 'running' and 'paused' fields
PipelineState ==
    IF Snapshot.running
    THEN IF Snapshot.paused THEN "Paused" ELSE "Running"
    ELSE IF Snapshot.paused THEN "StoppedAndPaused" ELSE "Stopped"

\* C15: the controller is always in exactly one of Stopped, Running, Paused:
\* a controller that is not running is never reported as paused, so that a
\* start() from Stopped finds the intake active.
C15_ExactlyOneState == PipelineState \in {"Stopped", "Running", "Paused"}

\* C16: every channel holds at most its declared capacity, in every state.
C16_ChannelsWithinCapacity ==
    /\ Len(audio_queue) <= AudioQueueMax
    /\ Len(transcription_queue) <= TranscriptionQueueMax
    /\ Len(translation_queue) <= TranslationQueueMax
    /\ Len(tts_queue) <= TtsQueueMax

\* the result of segment 1 filled translation_queue and the worker stands at
\* its put with the result of segment 2
C16_Witness ==
    /\ Len(translation_queue) = TranslationQueueMax
    /\ translation_queue[TranslationQueueMax].id = 1
    /\ \E g \in Gens : workers[g].tr = "put_tr" /\ workers[g].tr_item.id = 2

\* C17: no stage stays blocked on a put to a full channel: a translation
\* worker that stands at translation_queue.put always gets past it (by
\* putting or by dropping the item) and goes on to handle further segments.
C17_PutNeverBlocksForever ==
    \A g \in GenIds :
        (g \in Gens /\ workers[g].tr = "put_tr")
            ~> (g \in Gens /\ workers[g].tr # "put_tr")

(***************************************************************************)
(* Properties of the conversation context (SpecContext).                   *)
(***************************************************************************)
\* C18: the history never holds more than max_history exchanges, whatever
\* was added and whatever file was loaded.
C18_HistoryBounded == Len(history) <= max_history

\* more exchanges were handed to the context than it may keep, and it is full
C18_Witness ==
    /\ max_history > 0
    /\ offered > max_history + 1
    /\ Len(history) = max_history

(***************************************************************************)
(* Properties of the adaptive timing (SpecDelay).                          *)
(***************************************************************************)
\* C19: the adaptive delay is within [min_processing_delay,
\* max_processing_delay] in every reachable state.
C19_DelayWithinBounds ==
    /\ MinDelay <= adaptive_delay
    /\ adaptive_delay <= MaxDelay

(***************************************************************************)
(* Properties of sentence completeness (SpecSentence).                     *)
(***************************************************************************)
\* the buffer ends in '.', '!' or '?', optionally followed by whitespace
EndsInPunctuation(t) ==
    \E k \in 1..Len(t) : /\ t[k] \in Terminals
                         /\ \A j \in (k + 1)..Len(t) : t[j] = Space

NoPunctuation(t) == \A k \in 1..Len(t) : t[k] \notin Terminals

\* C21: a buffer of at most two words (the empty buffer included) without
\* terminal punctuation is judged incomplete by every is_complete_sentence,
\* whatever the words are.
C21_ShortIsIncomplete ==
    \A i \in 1..Len(verdict) :
        (NoPunctuation(verdict[i].text) /\ Len(Split(verdict[i].text)) <= 2)
            => ~verdict[i].basic /\ ~verdict[i].detector /\ ~verdict[i].t2

PendingUnpunctuated ==
    /\ Len(Split(sentence_buffer.text)) >= FlushWords
    /\ NoPunctuation(sentence_buffer.text)

Produced ==
    {translation_queue[i] : i \in 1..Len(translation_queue)}
        \cup {tts_queue[i] : i \in 1..Len(tts_queue)}
        \cup tts_tasks

\* C24: no translation and no utterance is produced from a transcript whose
\* detected language is the target language at the time it is translated,
\* also when change_language ran between its transcription and its
\* translation.
C24_NoSelfTranslation ==
    \A t \in Produced : t.src # t.tgt

TimeoutStep ==
    \E k \in {"transcribe", "translate"} : stale'[k] = stale[k] + 1
TranslatorRaises ==
    /\ ~HasTranslator
    /\ stale' = stale
    /\ \E g \in Gens : workers[g].tr = "result" /\ workers'[g].tr = "poll"

\* C26: every recoverable failure of a transcriber or translator call, a
\* timeout or an exception, adds exactly one to the errors counter.
C26_FailuresCounted ==
    [][ (TimeoutStep \/ TranslatorRaises) => stats'.errors = stats.errors + 1 ]_vars

(***************************************************************************)
(* Properties of the persisted context (SpecPersist).                      *)
(***************************************************************************)
\* the newest n items of a sequence
Newest(h, n) == IF Len(h) <= n THEN h ELSE SubSeq(h, Len(h) - n + 1, Len(h))

\* the file holds exactly what the context held at its latest save
FileIsLatestSave ==
    saved_file # <<>> =>
        /\ Len(saved_file[1].history) = Len(saved_file[1].from.history)
        /\ SetOf(saved_file[1].topics) = saved_file[1].from.topics
        /\ Len(saved_file[1].topics) = Cardinality(saved_file[1].from.topics)
        /\ saved_file[1].language_pairs = saved_file[1].from.language_pairs

\* C27 as stated: a fresh context that loaded the file holds the history,
\* in order, the topics and the language-pair counts of the context that
\* saved it, and each save rewrites the whole file.
C27_RoundTrip ==
    /\ FileIsLatestSave
    /\ new_context # <<>> =>
          /\ new_context[1].history = new_context[1].from.history
          /\ new_context[1].topics = new_context[1].from.topics
          /\ new_context[1].language_pairs = new_context[1].from.language_pairs

\* C27 amended: the fresh context holds the newest entries of the saved
\* history that fit its own max_history, in order (all of them when
\* max_history is at least their number), and the saved topics and
\* language-pair counts; each save rewrites the whole file.
C27_RoundTripWithinCapacity ==
    /\ FileIsLatestSave
    /\ new_context # <<>> =>
          /\ new_context[1].history =
                Newest(new_context[1].from.history, new_context[1].max_history)
          /\ new_context[1].topics = new_context[1].from.topics
          /\ new_context[1].language_pairs = new_context[1].from.language_pairs

\* a context with two exchanges, one stamped on a whole second and one not,
\* a topic and a counted language pair was saved and loaded whole into a
\* fresh context
C27_Witness ==
    /\ new_context # <<>>
    /\ Len(new_context[1].history) >= 2
    /\ new_context[1].history = new_context[1].from.history
    /\ \E i, j \in 1..Len(history) :
          /\ history[i].timestamp \in {[sec |-> i, usec |-> 0], <<i>>}
          /\ history[j].timestamp \notin {[sec |-> j, usec |-> 0], <<j>>}
    /\ new_context[1].topics # {}
    /\ new_context[1].from = Held

\* the words of the text end with the words of an entry of the language's
\* connectors list
EndsWithConnector(t, lang) ==
    LET words == Split(Strip(LowerText(t))) IN
    \E e \in Connectors(lang) :
        LET cw == Split(e) IN
        /\ Len(words) >= Len(cw)
        /\ SubSeq(words, Len(words) - Len(cw) + 1, Len(words)) = cw

\* C28: for a buffer of more than two words without terminal punctuation
\* and a source language, the detector's IsComplete is false when the buffer
\* ends with a connector of that language, of one word or of several, and
\* otherwise true exactly when the buffer has more than eight words.
C28_ConnectorOrLength ==
    \A i \in 1..Len(verdict) :
        LET v == verdict[i]
            n == Len(Split(v.text))
        IN (NoPunctuation(v.text) /\ n > 2 /\ v.lang # "none")
              => (v.detector <=> (~EndsWithConnector(v.text, v.lang)
                                     /\ n > LongSentenceWords))

\* some word of the text is one of the topics
SharesToken(t, tops) ==
    LET words == Split(Strip(LowerText(t))) IN
    \E i \in 1..Len(words) : WordIn(words[i], tops)

\* C29: with no topics the context-aware is_complete_sentence gives the
\* result of the base one for every buffer; with topics it differs from the
\* base only by judging incomplete a buffer that shares no word with them.
C29_ContextOnlyAddsTopics ==
    \A i \in 1..Len(verdict) :
        LET v == verdict[i] IN
        /\ v.tops = {} => v.ctx = v.t2
        /\ v.ctx # v.t2 => (v.t2 /\ ~v.ctx /\ ~SharesToken(v.text, v.tops))

(***************************************************************************)
(* Properties of the context-aware translator (SpecTranslate).             *)
(***************************************************************************)
\* C30: while translate keeps being called, a pending partial sentence is
\* eventually submitted or cleared (as long as translations may still be
\* recorded), even when its text never matches the topics.
C30_NeverStalled ==
    (partial_sentence # <<>> /\ offered < MaxTranslations)
        ~> (partial_sentence = <<>> \/ offered >= MaxTranslations)

(***************************************************************************)
(* Properties of the flush test (SpecApp).  The segments of SpecApp are    *)
(* runs of plain words without punctuation, which is_complete_sentence     *)
(* judges incomplete; src/app.py never asks.                               *)
(***************************************************************************)
\* C31: the translation stage submits a buffer only when it is a complete
\* sentence or when the delay has passed and it has at least three words:
\* a buffer of fewer than three plain words is never submitted.
C31_FlushOnlyWhenDue ==
    [][ \A g \in Gens :
          (workers[g].tr = "check" /\ workers'[g].tr = "translate")
              => WordCount(sentence_buffer) >= FlushWords ]_vars

\* a translate call whose accumulated text is a complete sentence: the call
\* reaches the duplicate test and, past it, the base translator
FlushAttempt ==
    /\ last_call' # <<>>
    /\ LET c == last_call'[1]
           partial == Strip(partial_sentence \o <<Space>> \o Strip(c.text))
       IN /\ c.text # <<>>
          /\ c.source_lang # target_lang
          /\ IsCompleteContext(partial, topics)

\* C32: after every flush attempt the accumulated sentence is empty, whether
\* the translation succeeded, was suppressed as a duplicate or came back
\* empty, so that its text is not prepended to the next segment.
C32_ClearedAfterFlush ==
    [][ FlushAttempt => partial_sentence' = <<>> ]_vars

(***************************************************************************)
(* Properties of the pipeline with a stalled transcriber (SpecStalled).    *)
(***************************************************************************)
\* C33: overrun transcriber calls do not stall the pipeline: an utterance
\* submitted for synthesis is eventually spoken.
C33_SynthesisProgresses ==
    (tts_tasks # {}) ~> (tts_tasks = {})

\* C34: utterances are spoken in the order in which their translations were
\* taken from the tts channel: the utterances that waited in the channel at
\* the start are spoken in their order in the channel.
C34_PlaybackInOrder ==
    \A i, j \in 1..Len(spoken) :
        \A m, n \in 1..Len(WaitingUtterances) :
            (i < j /\ spoken[i].id = WaitingUtterances[m].id
                   /\ spoken[j].id = WaitingUtterances[n].id) => m < n

\* C35: every flushed sentence buffer consists only of segments of one
\* source language and is translated with that language as source.
C35_BufferOfOneLanguage ==
    [][ \A g \in Gens :
          (workers[g].tr = "translate" /\ workers'[g].tr # "translate")
             => \A i \in 1..Len(sentence_buffer) :
                    sentence_buffer[i].lang = source_lang ]_vars

\* C36: in a context of src/mcp/mcp.py no operation other than an explicit
\* clear lowers or removes a language-pair counter, and an add_exchange
\* raises the counter of its own pair by one and leaves the others alone.
CountOf(d, k) == IF k \in DOMAIN d THEN d[k] ELSE 0
C36_PairCountersMonotone ==
    [][ ctx_impl = "mcp" =>
          /\ ~ClearAll =>
                \A k \in DOMAIN language_pairs :
                    CountOf(language_pairs', k) >= language_pairs[k]
          /\ RecordExchange =>
                \E k \in DOMAIN language_pairs' :
                    /\ language_pairs'[k] = CountOf(language_pairs, k) + 1
                    /\ \A o \in DOMAIN language_pairs' \ {k} :
                           language_pairs'[o] = CountOf(language_pairs, o) ]_vars

\* C40: a load into a context that is in use leaves exactly the file's
\* history (its last max_history entries), topics and language-pair counts,
\* whatever the context held before and however often the file is loaded.
FileEntries == IF ctx_impl = "mcp" THEN ParsedEntries(saved_file[1])
               ELSE saved_file[1].history
C40_LoadReplacesState ==
    [][ (ReloadFromFile \/ ReloadHistory) =>
          /\ history' = DequeExtend(<<>>, FileEntries, max_history)
          /\ topics' = SetOf(saved_file[1].topics)
          /\ language_pairs' = saved_file[1].language_pairs ]_vars

\* C37: at any time at most one transcription thread and at most one
\* translation thread of the TrilingualTranslator are still in their loops.
LiveTranscribers == {g \in Gens : workers[g].ts # "done"}
LiveTranslators == {g \in Gens : workers[g].tr # "done"}
C37_OneLiveWorkerPerStage ==
    /\ Cardinality(LiveTranscribers) <= 1
    /\ Cardinality(LiveTranslators) <= 1

\* a transcription thread of an earlier start() waits on the cleared
\* paused_event while a later start() has launched another one
OldTranscriberHeldByPause ==
    /\ trail = <<"start", "pause", "stop", "start">>
    /\ running
    /\ ~paused_event
    /\ \E g, h \in Gens : g < h /\ workers[g].ts = "wait" /\ workers[h].ts # "done"

\* C38: no counter update is lost: whenever no stage thread is inside an
\* update, every counter equals the number of updates made to it.
C38_NoLostUpdate ==
    (\A t \in Stages : in_update[t] = <<>>) => \A c \in Counters : stats[c] = counted[c]

\* C39: in the command-line pipeline every change of the sentence buffer is a
\* step of the translation thread and of no command: either the segment at
\* the head of the transcription queue is appended to the buffer, or the
\* buffer is cleared.
BufferAppend ==
    /\ transcription_queue # <<>>
    /\ sentence_buffer'.text =
          Strip(sentence_buffer.text \o <<Space>> \o Head(transcription_queue).text)
    /\ sentence_buffer'.segs =
          Append(sentence_buffer.segs, [id |-> Head(transcription_queue).id,
                                        lang |-> Head(transcription_queue).lang])
====
